---------------------------- MODULE Spec2Model ----------------------------
(***************************************************************************)
(* A model of the engine262 execution core:                                *)
(*   - Evaluate_AssignmentExpression                                        *)
(*       (src/src/runtime-semantics/AssignmentExpression.mjs),              *)
(*   - the realm construction protocol CreateRealm / CreateIntrinsics /     *)
(*     SetRealmGlobalObject / SetDefaultGlobalBindings (src/unnamed/part_001)*)
(* Each subsystem has its own specification (SpecAssign, SpecRealm); the    *)
(* variables of the other subsystem stay at their initial values.           *)
(***************************************************************************)
EXTENDS Integers, Sequences, FiniteSets, TLC

VARIABLES
    \* ---- one evaluation of Evaluate_AssignmentExpression(node) ----
    node,       \* the AST node: [operator, left, right]
    strict,     \* strictness of the code being evaluated
    x0,         \* the value bound to x when the evaluation starts
    store,      \* bindings, objects and the global object the expressions act on
    pc,         \* position inside Evaluate_AssignmentExpression
    lref,       \* const/let lref   (lines 29, 46)
    lval,       \* const lval       (line 47)
    rref,       \* const rref       (lines 31, 48)
    rval,       \* const rval       (lines 32, 49)
    result,     \* what the call returned
    trace,      \* the calls made so far, in order, with what they were given
    \* ---- one realm and the operations on it ----
    realmRec,   \* the Realm Record: Intrinsics, GlobalObject, GlobalEnv, TemplateMap, ...
    heap,       \* the objects that exist, by identity (position)
    envCount,   \* how many global Environment Records were created
    rpc,        \* position inside CreateRealm / CreateIntrinsics, then "ready"
    ran,        \* the bootstrap routines CreateIntrinsics has run, in order
    calls,      \* the operations invoked on the realm after CreateRealm returned it
    \* ---- the worker (src/unnamed/part_000) ----
    hpc,        \* position inside the message listener, "idle" between messages
    data,       \* the message being handled: [type, mode, features]
    agents,     \* the Agents created so far, by identity (position)
    surroundingAgent, \* identity of the surrounding agent, 0 for none
    globals,    \* per realm created, by identity: the names bound on its global object
    hrealm,     \* const realm: identity of the listener's realm
    promises,   \* const promises: the Set, in insertion order
    tracked,    \* the promiseRejectionTracker calls since the message arrived
    hresult,    \* let result
    hsteps,     \* the calls into the realm since the message arrived, with results
    posted,     \* the messages posted since the message arrived
    sessions    \* how many 'evaluate' messages have arrived

assignVars == <<node, strict, x0, store, pc, lref, lval, rref, rval, result, trace>>
realmVars  == <<realmRec, heap, envCount, rpc, ran, calls>>
hostVars   == <<hpc, data, agents, surroundingAgent, globals, hrealm, promises,
                tracked, hresult, hsteps, posted, sessions>>

vars == <<assignVars, realmVars, hostVars>>

(***************************************************************************)
(* Bounds.                                                                 *)
(***************************************************************************)
\* numeric source literals are 1 .. MaxSrc
MaxSrc == 3
\* how many operations are invoked on a realm after CreateRealm returned it
MaxCalls == 3
\* how many 'evaluate' messages the worker receives
MaxSessions == 2
\* how many promises an evaluation rejects or handles
MaxPromises == 2
\* how many times an evaluation calls promiseRejectionTracker
MaxTrackerCalls == 3

(***************************************************************************)
(* Language values, References and Completion Records.                     *)
(***************************************************************************)
Num(n)      == [t |-> "Number", v |-> n]
BigIntV(n)  == [t |-> "BigInt", v |-> n]
Undefined   == [t |-> "Undefined", v |-> 0]
Obj(id)     == [t |-> "Object", v |-> id]
\* the result of + with a non-numeric operand (a string) and of the other
\* arithmetic operators with one (NaN); their contents are not modelled
StringV     == [t |-> "String", v |-> 0]
NaNV        == [t |-> "NaN", v |-> 0]
TypeErrorV      == [t |-> "TypeError", v |-> 0]
ReferenceErrorV == [t |-> "ReferenceError", v |-> 0]
UserThrown      == [t |-> "Thrown", v |-> 0]

\* the objects of the evaluation store
ObjA  == Obj(1) \* the object the member target a[i++] indexes
ObjFn == Obj(2) \* the function/class object a function-definition source creates
\* a Number 2^32 + n (n < 0), which is beyond the checker's integers
NumPlus2To32(n) == [t |-> "Number+2^32", v |-> n]
BoolV(b)    == [t |-> "Boolean", v |-> IF b THEN 1 ELSE 0]

\* What Evaluate_Expression yields: a Reference or a plain value.
Reference(base, obj, name, isStrict) ==
    [isRef |-> TRUE, base |-> base, obj |-> obj, name |-> name,
     strict |-> isStrict, val |-> Undefined]
Val(v) ==
    [isRef |-> FALSE, base |-> "none", obj |-> 0, name |-> "",
     strict |-> FALSE, val |-> v]
NoRef == Val(Undefined)

NormalCompletion(rv) == [Type |-> "normal", Value |-> rv]
Throw(v)             == [Type |-> "throw", Value |-> Val(v)]
\* not yet returned / returned JavaScript undefined (fell off the function's end)
Pending              == [Type |-> "pending", Value |-> NoRef]
JSUndefined          == [Type |-> "jsundefined", Value |-> NoRef]

\* Q / ReturnIfAbrupt: the completion makes the enclosing function return
IsAbrupt(c) == c.Type # "normal"

(***************************************************************************)
(* Static semantics of the AST (src/src/.../AssignmentExpression.mjs uses  *)
(* them on node.left and node.right).                                      *)
(***************************************************************************)
\* operators are kept as their characters, so that slice(0, -1) is computed
Operators ==
    { <<"=">>, <<"+", "=">>, <<"-", "=">>, <<"*", "=">>, <<"*", "*", "=">>,
      <<"<", "<", "=">>, <<">", ">", "=">>, <<">", ">", ">", "=">> }

\* target expressions
\*   "x"       identifier bound to a mutable binding
\*   "c"       identifier bound to an immutable (const) binding
\*   "y"       identifier that resolves to no binding
\*   "a[i++]"  member expression whose key computation increments i
\*   "throw()" expression whose evaluation throws
\*   "{p}"     object literal (destructuring pattern)
\*   "[p]"     array literal (destructuring pattern)
LeftKinds == {"x", "c", "y", "a[i++]", "throw()", "{p}", "[p]"}
Lefts == [k : LeftKinds, n : {0}]

\* source expressions
\*   [k |-> "num", n]   numeric literal n
\*   "(x=9,2)"          sets the binding x to 9, then yields 2
\*   "function(){}"     anonymous function definition
\*   "class{static name(){}}" anonymous class with an own "name" property
\*   "function named(){}"     named function expression
\*   "1n"               BigInt literal
\*   "u"                identifier that resolves to no binding
\*   "throw()"          expression whose evaluation throws
SrcKinds == {"(x=9,2)", "function(){}", "class{static name(){}}",
             "function named(){}", "1n", "u", "throw()"}
Rights == [k : {"num"}, n : 1..MaxSrc] \cup [k : SrcKinds, n : {0}]

isObjectLiteral(e) == e.k = "{p}"
isArrayLiteral(e)  == e.k = "[p]"
IsIdentifierRef(e) == e.k \in {"x", "c", "y", "u"}
IsAnonymousFunctionDefinition(e) ==
    e.k \in {"function(){}", "class{static name(){}}"}

(***************************************************************************)
(* The evaluation store and the abstract operations the evaluator calls.   *)
(* store.x   value of the mutable binding x                                *)
(* store.c   value of the immutable binding c                              *)
(* store.i   the counter the target a[i++] increments                      *)
(* store.a   the properties "0", "1", "2" of the object a                  *)
(* store.y   the property y of the global object (absent at first)         *)
(* store.fn  the own "name" property of the function object ObjFn          *)
(***************************************************************************)
Keys == <<"0", "1", "2">>
KeyName(i) == IF i + 1 <= Len(Keys) THEN Keys[i + 1] ELSE "overflow"
KeySet == {Keys[j] : j \in 1..Len(Keys)} \cup {"overflow"}

InitialStore(xv) ==
    [x  |-> Num(xv),
     c  |-> Num(1),
     i  |-> 0,
     a  |-> [key \in KeySet |->
                IF key = "0" THEN Num(xv) ELSE IF key = "1" THEN Num(xv + 20)
                ELSE Num(xv + 40)],
     y  |-> [has |-> FALSE, val |-> Undefined, writable |-> FALSE,
             enumerable |-> FALSE, configurable |-> FALSE],
     fn |-> [own |-> FALSE, name |-> ""]]

\* Evaluate_Expression(e): a completion and the store after e's side effects
Evaluate_Expression(e, s, isStrict) ==
    CASE e.k = "x"  -> [c |-> NormalCompletion(Reference("env", 0, "x", isStrict)), s |-> s]
      [] e.k = "c"  -> [c |-> NormalCompletion(Reference("env", 0, "c", isStrict)), s |-> s]
      [] e.k = "y"  ->
            [c |-> NormalCompletion(
                      IF s.y.has THEN Reference("global", 0, "y", isStrict)
                      ELSE Reference("unresolvable", 0, "y", isStrict)),
             s |-> s]
      [] e.k = "u"  -> [c |-> NormalCompletion(Reference("unresolvable", 0, "u", isStrict)), s |-> s]
      [] e.k = "a[i++]" ->
            [c |-> NormalCompletion(Reference("object", 1, KeyName(s.i), isStrict)),
             s |-> [s EXCEPT !.i = @ + 1]]
      [] e.k = "throw()" -> [c |-> Throw(UserThrown), s |-> s]
      [] e.k = "num" -> [c |-> NormalCompletion(Val(Num(e.n))), s |-> s]
      [] e.k = "1n"  -> [c |-> NormalCompletion(Val(BigIntV(1))), s |-> s]
      [] e.k = "(x=9,2)" ->
            [c |-> NormalCompletion(Val(Num(2))), s |-> [s EXCEPT !.x = Num(9)]]
      [] e.k = "function(){}" ->
            [c |-> NormalCompletion(Val(ObjFn)),
             s |-> [s EXCEPT !.fn = [own |-> FALSE, name |-> ""]]]
      [] e.k = "class{static name(){}}" ->
            [c |-> NormalCompletion(Val(ObjFn)),
             s |-> [s EXCEPT !.fn = [own |-> TRUE, name |-> "<method>"]]]
      [] e.k = "function named(){}" ->
            [c |-> NormalCompletion(Val(ObjFn)),
             s |-> [s EXCEPT !.fn = [own |-> TRUE, name |-> "named"]]]
      [] OTHER -> [c |-> NormalCompletion(Val(Undefined)), s |-> s]

\* GetValue(V)
GetValue(V, s) ==
    IF ~V.isRef THEN NormalCompletion(Val(V.val))
    ELSE CASE V.base = "unresolvable" -> Throw(ReferenceErrorV)
           [] V.base = "env"    -> NormalCompletion(Val(IF V.name = "x" THEN s.x ELSE s.c))
           [] V.base = "global" -> NormalCompletion(Val(s.y.val))
           [] V.base = "object" -> NormalCompletion(Val(s.a[V.name]))
           [] OTHER -> Throw(ReferenceErrorV)

\* PutValue(V, W): a completion and the store after the write
PutValue(V, W, s) ==
    IF ~V.isRef THEN [c |-> Throw(ReferenceErrorV), s |-> s]
    ELSE CASE V.base = "unresolvable" ->
                IF V.strict THEN [c |-> Throw(ReferenceErrorV), s |-> s]
                ELSE [c |-> NormalCompletion(Val(Undefined)),
                      s |-> [s EXCEPT !.y = [has |-> TRUE, val |-> W, writable |-> TRUE,
                                             enumerable |-> TRUE, configurable |-> TRUE]]]
           [] V.base = "env" ->
                IF V.name = "c" THEN [c |-> Throw(TypeErrorV), s |-> s]
                ELSE [c |-> NormalCompletion(Val(Undefined)), s |-> [s EXCEPT !.x = W]]
           [] V.base = "global" ->
                [c |-> NormalCompletion(Val(Undefined)), s |-> [s EXCEPT !.y.val = W]]
           [] V.base = "object" ->
                [c |-> NormalCompletion(Val(Undefined)), s |-> [s EXCEPT !.a[V.name] = W]]
           [] OTHER -> [c |-> Throw(ReferenceErrorV), s |-> s]

GetReferencedName(V) == V.name

\* HasOwnProperty(O, "name"); only function objects are asked
HasOwnProperty(O, s) == NormalCompletion(Val(BoolV(s.fn.own)))

\* SetFunctionName(F, name)
SetFunctionName(F, name, s) == [s EXCEPT !.fn = [own |-> TRUE, name |-> name]]

(***************************************************************************)
(* EvaluateBinopValues(op, lval, rval): the binary operator dispatch.      *)
(* Number operands are small enough that every int32 result is exact; a    *)
(* uint32 result of 2^32 + n is kept as NumPlus2To32(n).                   *)
(***************************************************************************)
RECURSIVE Pow(_, _)
Pow(b, e) == IF e <= 0 THEN 1 ELSE b * Pow(b, e - 1)

\* the shift count: ToUint32(r) modulo 32
ShiftCount(r) == r % 32

\* ToUint32(l) >>> s
UnsignedRightShift(l, s) ==
    IF l >= 0 THEN Num(l \div Pow(2, s))
    ELSE IF s = 0 THEN NumPlus2To32(l)
    ELSE Num((Pow(2, 31 - s) + (l \div Pow(2, s))) + Pow(2, 31 - s))

NumberBinop(op, l, r) ==
    CASE op = <<"+">>           -> Num(l + r)
      [] op = <<"-">>           -> Num(l - r)
      [] op = <<"*">>           -> Num(l * r)
      [] op = <<"*", "*">>      -> Num(Pow(l, r))
      [] op = <<"<", "<">>      -> Num(l * Pow(2, ShiftCount(r)))
      [] op = <<">", ">">>      -> Num(l \div Pow(2, ShiftCount(r)))
      [] op = <<">", ">", ">">> -> UnsignedRightShift(l, ShiftCount(r))
      [] op = <<"<">>           -> BoolV(l < r)
      [] op = <<">">>           -> BoolV(l > r)
      [] OTHER                  -> Undefined

EvaluateBinopValues(op, l, r) ==
    CASE l.t = "Number" /\ r.t = "Number" -> NormalCompletion(Val(NumberBinop(op, l.v, r.v)))
      \* a Number and a BigInt cannot be mixed
      [] l.t = "Number" /\ r.t = "BigInt" -> Throw(TypeErrorV)
      \* a function operand: a string under +, NaN (shift count 0) otherwise
      [] l.t = "Number" /\ r.t = "Object" ->
            NormalCompletion(Val(
                CASE op = <<"+">> -> StringV
                  [] op \in {<<"<", "<">>, <<">", ">">>} -> Num(l.v)
                  [] op = <<">", ">", ">">> -> UnsignedRightShift(l.v, 0)
                  [] op \in {<<"<">>, <<">">>} -> BoolV(FALSE)
                  [] OTHER -> NaNV))
      [] OTHER -> NormalCompletion(Val(NaNV))

\* a slice that keeps only the first character of the operator
SliceFirstOnly(chars) == SubSeq(chars, 1, 1)

\* AssignmentOperator.slice(0, -1)
SliceOffLast(chars) == SubSeq(chars, 1, Len(chars) - 1)

(***************************************************************************)
(* Realm Records (src/unnamed/part_001).                                   *)
(***************************************************************************)
JSUndef   == [t |-> "jsundefined", v |-> 0]   \* JavaScript undefined (a field never set)
NullV     == [t |-> "Null", v |-> 0]
InfinityV == [t |-> "Infinity", v |-> 0]

\* a GlobalObject / GlobalEnv field that holds no Environment Record
NoEnv(tag) ==
    [t |-> tag, id |-> 0,
     ObjectRecord |-> [BindingObject |-> JSUndef, IsWithEnvironment |-> FALSE,
                       OuterEnv |-> JSUndef],
     GlobalThisValue |-> JSUndef,
     DeclarativeRecord |-> [bindings |-> {}, OuterEnv |-> JSUndef],
     VarNames |-> <<>>,
     OuterEnv |-> JSUndef]

\* class Realm { constructor() }: every field is JavaScript undefined
Realm ==
    [Intrinsics   |-> [t |-> "jsundefined", names |-> {}, ObjectPrototype |-> JSUndef],
     GlobalObject |-> JSUndef,
     GlobalEnv    |-> NoEnv("jsundefined"),
     TemplateMap  |-> [t |-> "jsundefined", list |-> <<>>],
     HostDefined  |-> JSUndef,
     randomState  |-> JSUndef]

(***************************************************************************)
(* Values of the worker (src/unnamed/part_000).                            *)
(***************************************************************************)
\* what a call into the realm gives back: a Completion Record, a module or a
\* promise; PromiseState is "undefined" on everything but a promise
HostResult(type, state, value) == [Type |-> type, PromiseState |-> state, Value |-> value]
NoResult                == HostResult("none", "undefined", "")
NormalValue(v)          == HostResult("normal", "undefined", v)
ThrowCompletion(v)      == HostResult("throw", "undefined", v)
SourceTextModule        == HostResult("module", "undefined", "code.mjs")
PromiseObject(state, v) == HostResult("promise", state, v)
\* result instanceof AbruptCompletion
InstanceofAbruptCompletion(r) == r.Type = "throw"

NoMessage == [type |-> "none", mode |-> "script", features |-> {}]
\* the worker is not running
HostIdle ==
    /\ hpc = "off"
    /\ data = NoMessage
    /\ agents = <<>>
    /\ surroundingAgent = 0
    /\ globals = <<>>
    /\ hrealm = 0
    /\ promises = <<>>
    /\ tracked = <<>>
    /\ hresult = NoResult
    /\ hsteps = <<>>
    /\ posted = <<>>
    /\ sessions = 0

\* the realm while an assignment expression is evaluated: not looked at
RealmIdle ==
    /\ realmRec = Realm
    /\ heap = <<>>
    /\ envCount = 0
    /\ rpc = "idle"
    /\ ran = <<>>
    /\ calls = <<>>

(***************************************************************************)
(* Evaluate_AssignmentExpression(node), one action per statement.          *)
(***************************************************************************)
XValues == {5, -8}

\* one call the evaluator made: the operation, the Reference and the value
\* it was given, and the completion it returned
Event(step, ref, val, c) == [step |-> step, ref |-> ref, val |-> val, c |-> c]

InitEvaluation ==
    /\ node \in [operator : Operators, left : Lefts, right : Rights]
    /\ strict \in BOOLEAN
    /\ x0 \in XValues
    /\ store = InitialStore(x0)
    /\ pc = "start"
    /\ lref = NoRef
    /\ lval = Undefined
    /\ rref = NoRef
    /\ rval = Undefined
    /\ result = Pending
    /\ trace = <<>>

\* the evaluator while the realm is constructed: not looked at
EvalIdle ==
    /\ node = [operator |-> <<"=">>, left |-> [k |-> "x", n |-> 0],
               right |-> [k |-> "num", n |-> 1]]
    /\ strict = FALSE
    /\ x0 = 5
    /\ store = InitialStore(5)
    /\ pc = "idle"
    /\ lref = NoRef
    /\ lval = Undefined
    /\ rref = NoRef
    /\ rval = Undefined
    /\ result = Pending
    /\ trace = <<>>

\* return completion c from Evaluate_AssignmentExpression
Return(c) == result' = c /\ pc' = "done"

\* lines 27-28, 42-43, 57: '=' with an object or array literal target skips
\* the inner block and falls off the end of the function
Assign_Pattern ==
    /\ pc = "start"
    /\ node.operator = <<"=">>
    /\ ~(~isObjectLiteral(node.left) /\ ~isArrayLiteral(node.left))
    /\ Return(JSUndefined)
    /\ UNCHANGED <<hostVars, realmVars, node, strict, x0, store, lref, lval, rref, rval, trace>>

\* lines 29-30: let lref = Q(Evaluate_Expression(LeftHandSideExpression))
Simple_EvalLeft ==
    /\ pc = "start"
    /\ node.operator = <<"=">>
    /\ ~isObjectLiteral(node.left) /\ ~isArrayLiteral(node.left)
    /\ LET e == Evaluate_Expression(node.left, store, strict) IN
         /\ trace' = Append(trace, Event("EvalLeft", NoRef, Undefined, e.c))
         /\ store' = e.s
         /\ IF IsAbrupt(e.c) THEN Return(e.c) /\ UNCHANGED lref
            ELSE lref' = e.c.Value /\ pc' = "s31" /\ UNCHANGED result
    /\ UNCHANGED <<hostVars, realmVars, node, strict, x0, lval, rref, rval>>

\* line 31: const rref = Q(Evaluate_Expression(AssignmentExpression))
Simple_EvalRight ==
    /\ pc = "s31"
    /\ LET e == Evaluate_Expression(node.right, store, strict) IN
         /\ trace' = Append(trace, Event("EvalRight", NoRef, Undefined, e.c))
         /\ store' = e.s
         /\ IF IsAbrupt(e.c) THEN Return(e.c) /\ UNCHANGED rref
            ELSE rref' = e.c.Value /\ pc' = "s32" /\ UNCHANGED result
    /\ UNCHANGED <<hostVars, realmVars, node, strict, x0, lref, lval, rval>>

\* line 32: const rval = Q(GetValue(rref))
Simple_GetValueR ==
    /\ pc = "s32"
    /\ LET c == GetValue(rref, store) IN
         /\ trace' = Append(trace, Event("GetValueR", rref, Undefined, c))
         /\ IF IsAbrupt(c) THEN Return(c) /\ UNCHANGED rval
            ELSE rval' = c.Value.val /\ pc' = "s33" /\ UNCHANGED result
    /\ UNCHANGED <<hostVars, realmVars, node, strict, x0, store, lref, lval, rref>>

\* lines 33-36 without the IsIdentifierRef test of line 34
Simple_NameCheck_AnyTarget ==
    /\ pc = "s33"
    /\ IF IsAnonymousFunctionDefinition(node.right)
       THEN LET c == HasOwnProperty(rval, store) IN
              /\ trace' = Append(trace, Event("HasOwnProperty", NoRef, rval, c))
              /\ IF IsAbrupt(c) THEN Return(c)
                 ELSE /\ pc' = IF c.Value.val = BoolV(FALSE) THEN "s37" ELSE "s40"
                      /\ UNCHANGED result
       ELSE pc' = "s40" /\ UNCHANGED <<trace, result>>
    /\ UNCHANGED <<hostVars, realmVars, node, strict, x0, store, lref, lval, rref, rval>>

\* lines 33-36: the anonymous-function test and the own "name" check
Simple_NameCheck ==
    /\ pc = "s33"
    /\ IF IsAnonymousFunctionDefinition(node.right) /\ IsIdentifierRef(node.left)
       THEN LET c == HasOwnProperty(rval, store) IN
              /\ trace' = Append(trace, Event("HasOwnProperty", NoRef, rval, c))
              /\ IF IsAbrupt(c) THEN Return(c)
                 ELSE /\ pc' = IF c.Value.val = BoolV(FALSE) THEN "s37" ELSE "s40"
                      /\ UNCHANGED result
       ELSE pc' = "s40" /\ UNCHANGED <<trace, result>>
    /\ UNCHANGED <<hostVars, realmVars, node, strict, x0, store, lref, lval, rref, rval>>

\* line 37: SetFunctionName(rval, GetReferencedName(lref))
Simple_SetFunctionName ==
    /\ pc = "s37"
    /\ store' = SetFunctionName(rval, GetReferencedName(lref), store)
    /\ trace' = Append(trace, Event("SetFunctionName", lref, rval,
                                    NormalCompletion(Val(Undefined))))
    /\ pc' = "s40"
    /\ UNCHANGED <<hostVars, realmVars, node, strict, x0, lref, lval, rref, rval, result>>

\* lines 40-41 as 'return Q(PutValue(lref, rval))': yields what PutValue returns
Simple_PutValue_ReturnsPutValue ==
    /\ pc = "s40"
    /\ LET p == PutValue(lref, rval, store) IN
         /\ trace' = Append(trace, Event("PutValue", lref, rval, p.c))
         /\ store' = p.s
         /\ Return(p.c)
    /\ UNCHANGED <<hostVars, realmVars, node, strict, x0, lref, lval, rref, rval>>

\* lines 40-41 without the Q: the completion of PutValue is dropped
Simple_PutValue_NoQ ==
    /\ pc = "s40"
    /\ LET p == PutValue(lref, rval, store) IN
         /\ trace' = Append(trace, Event("PutValue", lref, rval,
                                         NormalCompletion(Val(Undefined))))
         /\ store' = p.s
         /\ Return(NormalCompletion(Val(rval)))
    /\ UNCHANGED <<hostVars, realmVars, node, strict, x0, lref, lval, rref, rval>>

\* lines 40-41 with the target read first, as the compound branch does
Simple_PutValue_ReadsTargetFirst ==
    /\ pc = "s40"
    /\ LET g == GetValue(lref, store)
           p == PutValue(lref, rval, store)
       IN IF IsAbrupt(g)
          THEN /\ trace' = Append(trace, Event("GetValueL", lref, Undefined, g))
               /\ Return(g)
               /\ UNCHANGED store
          ELSE /\ trace' = trace \o <<Event("GetValueL", lref, Undefined, g),
                                      Event("PutValue", lref, rval, p.c)>>
               /\ store' = p.s
               /\ IF IsAbrupt(p.c) THEN Return(p.c)
                  ELSE Return(NormalCompletion(Val(rval)))
    /\ UNCHANGED <<hostVars, realmVars, node, strict, x0, lref, lval, rref, rval>>

\* lines 40-41: Q(PutValue(lref, rval)); return rval
Simple_PutValue ==
    /\ pc = "s40"
    /\ LET p == PutValue(lref, rval, store) IN
         /\ trace' = Append(trace, Event("PutValue", lref, rval, p.c))
         /\ store' = p.s
         /\ IF IsAbrupt(p.c) THEN Return(p.c)
            ELSE Return(NormalCompletion(Val(rval)))
    /\ UNCHANGED <<hostVars, realmVars, node, strict, x0, lref, lval, rref, rval>>

\* line 46: const lref = Q(Evaluate_Expression(LeftHandSideExpression))
Compound_EvalLeft ==
    /\ pc = "start"
    /\ ~(node.operator = <<"=">>)
    /\ LET e == Evaluate_Expression(node.left, store, strict) IN
         /\ trace' = Append(trace, Event("EvalLeft", NoRef, Undefined, e.c))
         /\ store' = e.s
         /\ IF IsAbrupt(e.c) THEN Return(e.c) /\ UNCHANGED lref
            ELSE lref' = e.c.Value /\ pc' = "c47" /\ UNCHANGED result
    /\ UNCHANGED <<hostVars, realmVars, node, strict, x0, lval, rref, rval>>

\* line 47 without the Q: an abrupt GetValue does not return
Compound_GetValueL_NoReturn ==
    /\ pc = "c47"
    /\ LET c == GetValue(lref, store) IN
         /\ trace' = Append(trace, Event("GetValueL", lref, Undefined, c))
         /\ lval' = c.Value.val /\ pc' = "c48" /\ UNCHANGED result
    /\ UNCHANGED <<hostVars, realmVars, node, strict, x0, store, lref, rref, rval>>

\* line 47 with an unresolvable target read as undefined instead of GetValue
Compound_GetValueL_UndefinedWhenUnresolvable ==
    /\ pc = "c47"
    /\ LET c == IF lref.isRef /\ lref.base = "unresolvable"
                THEN NormalCompletion(Val(Undefined))
                ELSE GetValue(lref, store) IN
         /\ trace' = Append(trace, Event("GetValueL", lref, Undefined, c))
         /\ IF IsAbrupt(c) THEN Return(c) /\ UNCHANGED lval
            ELSE lval' = c.Value.val /\ pc' = "c48" /\ UNCHANGED result
    /\ UNCHANGED <<hostVars, realmVars, node, strict, x0, store, lref, rref, rval>>

\* line 47: const lval = Q(GetValue(lref))
Compound_GetValueL ==
    /\ pc = "c47"
    /\ LET c == GetValue(lref, store) IN
         /\ trace' = Append(trace, Event("GetValueL", lref, Undefined, c))
         /\ IF IsAbrupt(c) THEN Return(c) /\ UNCHANGED lval
            ELSE lval' = c.Value.val /\ pc' = "c48" /\ UNCHANGED result
    /\ UNCHANGED <<hostVars, realmVars, node, strict, x0, store, lref, rref, rval>>

\* line 48: const rref = Q(Evaluate_Expression(AssignmentExpression))
Compound_EvalRight ==
    /\ pc = "c48"
    /\ LET e == Evaluate_Expression(node.right, store, strict) IN
         /\ trace' = Append(trace, Event("EvalRight", NoRef, Undefined, e.c))
         /\ store' = e.s
         /\ IF IsAbrupt(e.c) THEN Return(e.c) /\ UNCHANGED rref
            ELSE rref' = e.c.Value /\ pc' = "c49" /\ UNCHANGED result
    /\ UNCHANGED <<hostVars, realmVars, node, strict, x0, lref, lval, rval>>

\* line 49 followed by a second read of the target, after the source ran
Compound_GetValueR_RereadsLeft ==
    /\ pc = "c49"
    /\ LET c == GetValue(rref, store) IN
         /\ trace' = Append(trace, Event("GetValueR", rref, Undefined, c))
         /\ IF IsAbrupt(c) THEN Return(c) /\ UNCHANGED <<rval, lval>>
            ELSE /\ rval' = c.Value.val /\ pc' = "c51" /\ UNCHANGED result
                 /\ lval' = GetValue(lref, store).Value.val
    /\ UNCHANGED <<hostVars, realmVars, node, strict, x0, store, lref, rref>>

\* line 49: const rval = Q(GetValue(rref))
Compound_GetValueR ==
    /\ pc = "c49"
    /\ LET c == GetValue(rref, store) IN
         /\ trace' = Append(trace, Event("GetValueR", rref, Undefined, c))
         /\ IF IsAbrupt(c) THEN Return(c) /\ UNCHANGED rval
            ELSE rval' = c.Value.val /\ pc' = "c51" /\ UNCHANGED result
    /\ UNCHANGED <<hostVars, realmVars, node, strict, x0, store, lref, lval, rref>>

\* lines 51-56 with the target evaluated again for the write
Compound_BinopPutValue_Reevaluates ==
    /\ pc = "c51"
    /\ LET op == SliceOffLast(node.operator)
           b  == EvaluateBinopValues(op, lval, rval)
           r  == b.Value.val
           e  == Evaluate_Expression(node.left, store, strict)
           p  == PutValue(e.c.Value, r, e.s)
       IN
         IF IsAbrupt(b)
         THEN /\ trace' = Append(trace, Event("Binop", NoRef, lval, b))
              /\ Return(b)
              /\ UNCHANGED store
         ELSE /\ trace' = trace \o <<Event("Binop", NoRef, lval, b),
                                     Event("PutValue", e.c.Value, r, p.c)>>
              /\ store' = p.s
              /\ IF IsAbrupt(p.c) THEN Return(p.c)
                 ELSE Return(NormalCompletion(Val(r)))
    /\ UNCHANGED <<hostVars, realmVars, node, strict, x0, lref, lval, rref, rval>>

\* lines 51-56: op = AssignmentOperator.slice(0, -1);
\* r = Q(EvaluateBinopValues(op, lval, rval)); Q(PutValue(lref, r)); return r
Compound_BinopPutValue ==
    /\ pc = "c51"
    /\ LET AssignmentOperator == node.operator
           op == SliceOffLast(AssignmentOperator)
           b  == EvaluateBinopValues(op, lval, rval)
           r  == b.Value.val
           p  == PutValue(lref, r, store)
       IN
         IF IsAbrupt(b)
         THEN /\ trace' = Append(trace, Event("Binop", NoRef, lval, b))
              /\ Return(b)
              /\ UNCHANGED store
         ELSE /\ trace' = trace \o <<Event("Binop", NoRef, lval, b),
                                     Event("PutValue", lref, r, p.c)>>
              /\ store' = p.s
              /\ IF IsAbrupt(p.c) THEN Return(p.c)
                 ELSE Return(NormalCompletion(Val(r)))
    /\ UNCHANGED <<hostVars, realmVars, node, strict, x0, lref, lval, rref, rval>>

NextAssign ==
    \/ Assign_Pattern
    \/ Simple_EvalLeft
    \/ Simple_EvalRight
    \/ Simple_GetValueR
    \/ Simple_NameCheck
    \/ Simple_SetFunctionName
    \/ Simple_PutValue
    \/ Compound_EvalLeft
    \/ Compound_GetValueL
    \/ Compound_EvalRight
    \/ Compound_GetValueR
    \/ Compound_BinopPutValue

\* SpecAssign: one evaluation of an assignment expression, for every node
InitAssign == InitEvaluation /\ RealmIdle /\ HostIdle
SpecAssign == InitAssign /\ [][NextAssign]_vars

(***************************************************************************)
(* Properties of Evaluate_AssignmentExpression.                            *)
(***************************************************************************)
IsCompound == ~(node.operator = <<"=">>)
IsPattern  == node.left.k \in {"{p}", "[p]"}
Steps == {"EvalLeft", "GetValueL", "EvalRight", "GetValueR", "HasOwnProperty",
          "SetFunctionName", "Binop", "PutValue"}
Positions(step) == {j \in 1..Len(trace) : trace[j].step = step}
Count(step) == Cardinality(Positions(step))
Happened(step) == Positions(step) # {}
\* the position of the only event of a step
At(step) == CHOOSE j \in Positions(step) : TRUE
Before(a, b) == Happened(a) /\ Happened(b) /\ At(a) < At(b)
ReturnedNormally == pc = "done" /\ result.Type = "normal"

\* C1: a compound assignment evaluates its target expression exactly once;
\* the Reference that evaluation returned is the one GetValue reads the left
\* operand from and the one PutValue writes to; the side effect of computing
\* the target (the i++ of a[i++]) is observed exactly once.
C1_TargetEvaluatedOnce ==
    IsCompound =>
        /\ Count("EvalLeft") <= 1
        /\ pc # "start" => Count("EvalLeft") = 1
        /\ store.i = (IF node.left.k = "a[i++]" /\ pc # "start" THEN 1 ELSE 0)
        /\ \A j \in Positions("GetValueL") \cup Positions("PutValue") :
              /\ trace[At("EvalLeft")].c.Type = "normal"
              /\ trace[j].ref = trace[At("EvalLeft")].c.Value

C1_Witness ==
    /\ ReturnedNormally /\ IsCompound /\ node.left.k = "a[i++]"
    /\ store.i = 1 /\ Happened("GetValueL") /\ Happened("PutValue")
    /\ trace[At("PutValue")].ref.name = "0"

\* the value the table of compound operators gives for Number operands
C3_Expected(operator, l, r) ==
    CASE operator = <<"+", "=">> -> Num(l + r)
      [] operator = <<"-", "=">> -> Num(l - r)
      [] operator = <<"*", "=">> -> Num(l * r)
      [] operator = <<"*", "*", "=">> -> Num(Pow(l, r))
      [] operator = <<"<", "<", "=">> -> Num(l * Pow(2, r))
      [] operator = <<">", ">", "=">> -> Num(l \div Pow(2, r))
      [] operator = <<">", ">", ">", "=">> ->
            IF l >= 0 THEN Num(l \div Pow(2, r))
            ELSE Num((Pow(2, 31 - r) + (l \div Pow(2, r))) + Pow(2, 31 - r))
      [] OTHER -> Undefined

\* C2: on the simple-reference and the compound path the sub-steps happen in
\* source order, each at most once and, when the assignment returns normally,
\* each exactly once: the target is evaluated before the source; in the
\* compound case the left operand is read before the source is evaluated, so
\* a source that rebinds x, (x=9,2), leaves the operand read from x at x's
\* old value; PutValue comes after all of them.
C2_LeftToRightOrder ==
    /\ \A st \in Steps : Count(st) <= 1
    /\ Happened("EvalRight") => Before("EvalLeft", "EvalRight")
    /\ Happened("GetValueL") => Before("EvalLeft", "GetValueL")
    /\ (IsCompound /\ Happened("EvalRight")) => Before("GetValueL", "EvalRight")
    /\ Happened("GetValueR") => Before("EvalRight", "GetValueR")
    /\ Happened("PutValue") =>
          /\ Before("EvalLeft", "PutValue") /\ Before("GetValueR", "PutValue")
          /\ IsCompound => Before("GetValueL", "PutValue")
    /\ ReturnedNormally =>
          /\ \A st \in {"EvalLeft", "EvalRight", "GetValueR", "PutValue"} : Count(st) = 1
          /\ Count("GetValueL") = (IF IsCompound THEN 1 ELSE 0)
    /\ (ReturnedNormally /\ IsCompound /\ node.left.k = "x"
            /\ node.right.k = "(x=9,2)") =>
          /\ trace[At("GetValueL")].c.Value.val = Num(x0)
          /\ result.Value.val = C3_Expected(node.operator, x0, 2)
          /\ store.x = result.Value.val

C2_Witness ==
    /\ ReturnedNormally /\ node.operator = <<"+", "=">> /\ node.left.k = "x"
    /\ node.right.k = "(x=9,2)" /\ x0 = 5 /\ store.x = Num(7)

\* C3: a compound assignment '@=' that returns normally yields the value it
\* wrote with PutValue, and that value is lval @ rval for the left operand
\* read from the target and the value of the source.
C3_CompoundResult ==
    (ReturnedNormally /\ IsCompound) =>
        LET l == trace[At("GetValueL")].c.Value.val
            r == trace[At("GetValueR")].c.Value.val
        IN /\ trace[At("PutValue")].val = result.Value.val
           /\ ~result.Value.isRef
           /\ (l.t = "Number" /\ r.t = "Number") =>
                 result.Value.val = C3_Expected(node.operator, l.v, r.v)
           /\ node.left.k = "x" => store.x = result.Value.val

\* 'x = 5; x += 3; x' yields 8
C3_Witness ==
    /\ ReturnedNormally /\ node.operator = <<"+", "=">> /\ node.left.k = "x"
    /\ x0 = 5 /\ node.right = [k |-> "num", n |-> 3]
    /\ result.Value.val = Num(8) /\ store.x = Num(8)

\* C4: '=' with an object- or array-literal target delegates to
\* destructuring-assignment evaluation and yields its Completion; every
\* call returns a value or a Completion.
C4_PatternDelegates ==
    pc = "done" =>
        /\ result.Type \in {"normal", "throw"}
        /\ (~IsCompound /\ IsPattern) =>
              \E j \in 1..Len(trace) : trace[j].step = "DestructuringAssignmentEvaluation"

\* C5: an abrupt completion returned by any step is the last thing that
\* happens: the assignment returns that same completion, no later step runs,
\* and so no PutValue follows an abrupt step.
C5_AbruptPropagates ==
    \A j \in 1..Len(trace) :
        IsAbrupt(trace[j].c) =>
            /\ j = Len(trace)
            /\ pc = "done"
            /\ result = trace[j].c
            /\ trace[j].step # "PutValue" => ~Happened("PutValue")

C5_Witness ==
    /\ pc = "done" /\ IsCompound /\ node.left.k = "y"
    /\ result = Throw(ReferenceErrorV)
    /\ trace[Len(trace)].step = "GetValueL"
    /\ ~Happened("EvalRight") /\ ~Happened("PutValue")

(***************************************************************************)
(* Objects and property definition (OrdinaryObjectCreate, MakeBasicObject, *)
(* DefinePropertyOrThrow).                                                 *)
(***************************************************************************)
\* the names SetDefaultGlobalBindings defines through forEach with an intrinsic
GlobalFunctionNames ==
    << "eval", "isFinite", "isNaN", "parseFloat", "parseInt",
       "decodeURI", "decodeURIComponent", "encodeURI", "encodeURIComponent", "AggregateError",
       "Array", "ArrayBuffer", "Boolean", "BigInt", "BigInt64Array",
       "BigUint64Array", "DataView", "Date", "Error", "EvalError",
       "FinalizationRegistry", "Float32Array", "Float64Array", "Function", "Int8Array",
       "Int16Array", "Int32Array", "Map", "Number", "Object",
       "Promise", "Proxy", "RangeError", "ReferenceError", "RegExp",
       "Set", "String", "Symbol", "SyntaxError", "TypeError",
       "Uint8Array", "Uint8ClampedArray", "Uint16Array", "Uint32Array", "URIError",
       "WeakMap", "WeakRef", "WeakSet", "JSON", "Math",
       "Reflect" >>

Range(seq) == {seq[j] : j \in 1..Len(seq)}

PropNames == {"Infinity", "NaN", "undefined", "globalThis"} \cup Range(GlobalFunctionNames)

\* Descriptor({ Value, Writable, Enumerable, Configurable })
Descriptor(value, writable, enumerable, configurable) ==
    [has |-> TRUE, Value |-> value, Writable |-> writable,
     Enumerable |-> enumerable, Configurable |-> configurable]
Absent == [has |-> FALSE, Value |-> JSUndef, Writable |-> FALSE,
           Enumerable |-> FALSE, Configurable |-> FALSE]

\* MakeBasicObject(['Prototype', 'Extensible']): every slot undefined, then
\* Extensible true
MakeBasicObject ==
    [Prototype |-> Undefined, Extensible |-> TRUE, props |-> [n \in PropNames |-> Absent]]

\* OrdinaryObjectCreate(proto): the new object
OrdinaryObjectCreate(proto) == [MakeBasicObject EXCEPT !.Prototype = proto]

\* DefinePropertyOrThrow(O, P, desc) on an ordinary object: its completion
\* and the object afterwards.  A new property needs an extensible object; a
\* non-configurable one only accepts a descriptor that changes nothing.
DefinePropertyOrThrow(O, P, desc) ==
    LET current == O.props[P]
        accepted ==
            IF ~current.has THEN O.Extensible
            ELSE IF current.Configurable THEN TRUE
            ELSE /\ ~desc.Configurable
                 /\ desc.Enumerable = current.Enumerable
                 /\ (current.Writable \/ (~desc.Writable /\ desc.Value = current.Value))
    IN IF accepted
       THEN [c |-> NormalCompletion(Val(BoolV(TRUE))), O |-> [O EXCEPT !.props[P] = desc]]
       ELSE [c |-> Throw(TypeErrorV), O |-> O]

(***************************************************************************)
(* CreateRealm and CreateIntrinsics.                                       *)
(***************************************************************************)
\* CreateIntrinsics with bootstrapMath moved behind bootstrapDatePrototype
BootstrapOrder_MathAfterDatePrototype ==
    << "FunctionPrototype", "ObjectPrototype", "ThrowTypeError",
       "Eval", "IsFinite", "IsNaN",
       "ParseFloat", "ParseInt", "URIHandling",
       "Object", "ErrorPrototype", "Error",
       "NativeError", "AggregateErrorPrototype", "AggregateError",
       "Function", "IteratorPrototype", "AsyncIteratorPrototype",
       "ArrayIteratorPrototype", "MapIteratorPrototype", "SetIteratorPrototype",
       "StringIteratorPrototype", "RegExpStringIteratorPrototype", "ForInIteratorPrototype",
       "StringPrototype", "String", "ArrayPrototype",
       "Array", "BooleanPrototype", "Boolean",
       "NumberPrototype", "Number", "BigIntPrototype",
       "BigInt", "SymbolPrototype", "Symbol",
       "PromisePrototype", "Promise", "Proxy",
       "Reflect", "DatePrototype", "Math",
       "Date", "RegExpPrototype", "RegExp",
       "SetPrototype", "Set", "MapPrototype",
       "Map", "GeneratorFunctionPrototypePrototype", "GeneratorFunctionPrototype",
       "GeneratorFunction", "AsyncFunctionPrototype", "AsyncFunction",
       "AsyncGeneratorFunctionPrototypePrototype", "AsyncGeneratorFunctionPrototype", "AsyncGeneratorFunction",
       "AsyncFromSyncIteratorPrototype", "ArrayBufferPrototype", "ArrayBuffer",
       "TypedArrayPrototype", "TypedArray", "TypedArrayPrototypes",
       "TypedArrayConstructors", "DataViewPrototype", "DataView",
       "JSON", "WeakMapPrototype", "WeakMap",
       "WeakSetPrototype", "WeakSet", "WeakRefPrototype",
       "WeakRef", "FinalizationRegistryPrototype", "FinalizationRegistry" >>

\* CreateIntrinsics with bootstrapString moved before bootstrapStringPrototype
BootstrapOrder_StringBeforePrototype ==
    << "FunctionPrototype", "ObjectPrototype", "ThrowTypeError",
       "Eval", "IsFinite", "IsNaN",
       "ParseFloat", "ParseInt", "URIHandling",
       "Object", "ErrorPrototype", "Error",
       "NativeError", "AggregateErrorPrototype", "AggregateError",
       "Function", "IteratorPrototype", "AsyncIteratorPrototype",
       "ArrayIteratorPrototype", "MapIteratorPrototype", "SetIteratorPrototype",
       "StringIteratorPrototype", "RegExpStringIteratorPrototype", "ForInIteratorPrototype",
       "String", "StringPrototype", "ArrayPrototype",
       "Array", "BooleanPrototype", "Boolean",
       "NumberPrototype", "Number", "BigIntPrototype",
       "BigInt", "SymbolPrototype", "Symbol",
       "PromisePrototype", "Promise", "Proxy",
       "Reflect", "Math", "DatePrototype",
       "Date", "RegExpPrototype", "RegExp",
       "SetPrototype", "Set", "MapPrototype",
       "Map", "GeneratorFunctionPrototypePrototype", "GeneratorFunctionPrototype",
       "GeneratorFunction", "AsyncFunctionPrototype", "AsyncFunction",
       "AsyncGeneratorFunctionPrototypePrototype", "AsyncGeneratorFunctionPrototype", "AsyncGeneratorFunction",
       "AsyncFromSyncIteratorPrototype", "ArrayBufferPrototype", "ArrayBuffer",
       "TypedArrayPrototype", "TypedArray", "TypedArrayPrototypes",
       "TypedArrayConstructors", "DataViewPrototype", "DataView",
       "JSON", "WeakMapPrototype", "WeakMap",
       "WeakSetPrototype", "WeakSet", "WeakRefPrototype",
       "WeakRef", "FinalizationRegistryPrototype", "FinalizationRegistry" >>

\* the bootstrap calls of CreateIntrinsics, in the order of its statements
BootstrapOrder ==
    << "FunctionPrototype", "ObjectPrototype", "ThrowTypeError",
       "Eval", "IsFinite", "IsNaN",
       "ParseFloat", "ParseInt", "URIHandling",
       "Object", "ErrorPrototype", "Error",
       "NativeError", "AggregateErrorPrototype", "AggregateError",
       "Function", "IteratorPrototype", "AsyncIteratorPrototype",
       "ArrayIteratorPrototype", "MapIteratorPrototype", "SetIteratorPrototype",
       "StringIteratorPrototype", "RegExpStringIteratorPrototype", "ForInIteratorPrototype",
       "StringPrototype", "String", "ArrayPrototype",
       "Array", "BooleanPrototype", "Boolean",
       "NumberPrototype", "Number", "BigIntPrototype",
       "BigInt", "SymbolPrototype", "Symbol",
       "PromisePrototype", "Promise", "Proxy",
       "Reflect", "Math", "DatePrototype",
       "Date", "RegExpPrototype", "RegExp",
       "SetPrototype", "Set", "MapPrototype",
       "Map", "GeneratorFunctionPrototypePrototype", "GeneratorFunctionPrototype",
       "GeneratorFunction", "AsyncFunctionPrototype", "AsyncFunction",
       "AsyncGeneratorFunctionPrototypePrototype", "AsyncGeneratorFunctionPrototype", "AsyncGeneratorFunction",
       "AsyncFromSyncIteratorPrototype", "ArrayBufferPrototype", "ArrayBuffer",
       "TypedArrayPrototype", "TypedArray", "TypedArrayPrototypes",
       "TypedArrayConstructors", "DataViewPrototype", "DataView",
       "JSON", "WeakMapPrototype", "WeakMap",
       "WeakSetPrototype", "WeakSet", "WeakRefPrototype",
       "WeakRef", "FinalizationRegistryPrototype", "FinalizationRegistry" >>

TypedArrayNames ==
    {"Int8Array", "Uint8Array", "Uint8ClampedArray", "Int16Array", "Uint16Array",
     "Int32Array", "Uint32Array", "Float32Array", "Float64Array",
     "BigInt64Array", "BigUint64Array"}
NativeErrorNames ==
    {"EvalError", "RangeError", "ReferenceError", "SyntaxError", "TypeError", "URIError"}
\* the X of the routines named bootstrapXPrototype
PrototypeBases ==
    {"Function", "Object", "Error", "AggregateError", "Iterator", "AsyncIterator",
     "ArrayIterator", "MapIterator", "SetIterator", "StringIterator",
     "RegExpStringIterator", "ForInIterator", "String", "Array", "Boolean", "Number",
     "BigInt", "Symbol", "Promise", "Date", "RegExp", "Set", "Map",
     "GeneratorFunction", "AsyncFunction", "AsyncGeneratorFunction",
     "AsyncFromSyncIterator", "ArrayBuffer", "TypedArray", "DataView", "WeakMap",
     "WeakSet", "WeakRef", "FinalizationRegistry"}

\* the intrinsics a bootstrap routine stores in realmRec.Intrinsics
Creates(routine) ==
    CASE routine = "Eval"       -> {"%eval%"}
      [] routine = "IsFinite"   -> {"%isFinite%"}
      [] routine = "IsNaN"      -> {"%isNaN%"}
      [] routine = "ParseFloat" -> {"%parseFloat%"}
      [] routine = "ParseInt"   -> {"%parseInt%"}
      [] routine = "URIHandling" ->
            {"%decodeURI%", "%decodeURIComponent%", "%encodeURI%", "%encodeURIComponent%"}
      [] routine = "NativeError" ->
            {"%" \o n \o "%" : n \in NativeErrorNames}
                \cup {"%" \o n \o ".prototype%" : n \in NativeErrorNames}
      [] routine = "TypedArrayPrototypes" ->
            {"%" \o n \o ".prototype%" : n \in TypedArrayNames}
      [] routine = "TypedArrayConstructors" ->
            {"%" \o n \o "%" : n \in TypedArrayNames}
      [] routine = "GeneratorFunctionPrototypePrototype" ->
            {"%GeneratorFunction.prototype.prototype%"}
      [] routine = "AsyncGeneratorFunctionPrototypePrototype" ->
            {"%AsyncGeneratorFunction.prototype.prototype%"}
      [] OTHER ->
            LET bases == {b \in PrototypeBases : b \o "Prototype" = routine}
            IN IF bases # {} THEN {"%" \o b \o ".prototype%" : b \in bases}
               ELSE {"%" \o routine \o "%"}

\* realmRec.Intrinsics[name]
Intrinsic(rec, name) ==
    IF name \notin rec.Intrinsics.names THEN JSUndef
    ELSE IF name = "%Object.prototype%" THEN rec.Intrinsics.ObjectPrototype
    ELSE [t |-> name, v |-> 0]

\* the global objects a host may hand to SetRealmGlobalObject
\*   "plain"          an empty extensible object
\*   "NaN"            has a non-configurable, non-writable NaN property of its own
\*   "globalThis"     has a non-configurable globalThis property of its own
\*   "Array"          has a non-configurable Array property of its own
\*   "nonextensible"  an empty object that is not extensible
HostKinds == {"plain", "NaN", "globalThis", "Array", "nonextensible"}
HostObject(kind) ==
    LET plain == OrdinaryObjectCreate(NullV)
        own   == Descriptor(Num(0), FALSE, FALSE, FALSE)
    IN CASE kind = "plain"         -> plain
         [] kind = "nonextensible" -> [plain EXCEPT !.Extensible = FALSE]
         [] OTHER                  -> [plain EXCEPT !.props[kind] = own]
\* heap[1] is the host's global object, heap[2] the host's this value
HostGlobal == Obj(1)
HostThis   == Obj(2)

InitRealm ==
    /\ realmRec = Realm
    /\ \E kind \in HostKinds :
          heap = <<HostObject(kind), OrdinaryObjectCreate(NullV)>>
    /\ envCount = 0
    /\ rpc = "CreateIntrinsics"
    /\ ran = <<>>
    /\ calls = <<>>

\* CreateRealm line 37 -> CreateIntrinsics lines 65-68: the table is stored in
\* the realm and '%Object.prototype%' is created in it
CreateIntrinsics_Begin ==
    /\ rpc = "CreateIntrinsics"
    /\ heap' = Append(heap, OrdinaryObjectCreate(NullV))
    /\ realmRec' = [realmRec EXCEPT !.Intrinsics =
                        [t |-> "Record", names |-> {"%Object.prototype%"},
                         ObjectPrototype |-> Obj(Len(heap) + 1)]]
    /\ rpc' = "bootstrap"
    /\ UNCHANGED <<hostVars, assignVars, envCount, ran, calls>>

\* CreateIntrinsics lines 70-174: the next bootstrap call
CreateIntrinsics_Bootstrap ==
    /\ rpc = "bootstrap"
    /\ Len(ran) < Len(BootstrapOrder)
    /\ LET routine == BootstrapOrder[Len(ran) + 1] IN
         /\ ran' = Append(ran, routine)
         /\ realmRec' = [realmRec EXCEPT !.Intrinsics.names = @ \cup Creates(routine)]
    /\ rpc' = IF Len(ran) + 1 = Len(BootstrapOrder)
              THEN "AddRestrictedFunctionProperties" ELSE "bootstrap"
    /\ UNCHANGED <<hostVars, assignVars, heap, envCount, calls>>

\* CreateIntrinsics lines 176-178
CreateIntrinsics_Finish ==
    /\ rpc = "AddRestrictedFunctionProperties"
    /\ ran' = Append(ran, "AddRestrictedFunctionProperties")
    /\ rpc' = "CreateRealm"
    /\ UNCHANGED <<hostVars, assignVars, realmRec, heap, envCount, calls>>

\* CreateRealm without its line 40 (TemplateMap is left as constructed)
CreateRealm_Finish_NoTemplateMap ==
    /\ rpc = "CreateRealm"
    /\ realmRec' = [realmRec EXCEPT !.GlobalObject = Undefined,
                                    !.GlobalEnv = NoEnv("Undefined")]
    /\ rpc' = "ready"
    /\ UNCHANGED <<hostVars, assignVars, heap, envCount, ran, calls>>

\* CreateRealm lines 38-41
CreateRealm_Finish ==
    /\ rpc = "CreateRealm"
    /\ realmRec' = [realmRec EXCEPT !.GlobalObject = Undefined,
                                    !.GlobalEnv = NoEnv("Undefined"),
                                    !.TemplateMap = [t |-> "List", list |-> <<>>]]
    /\ rpc' = "ready"
    /\ UNCHANGED <<hostVars, assignVars, heap, envCount, ran, calls>>

(***************************************************************************)
(* SetRealmGlobalObject and SetDefaultGlobalBindings, invoked by the       *)
(* holder of the realm CreateRealm returned.  Neither function tests the   *)
(* realm's state, so the model lets them be invoked in any order.          *)
(***************************************************************************)
\* NewObjectEnvironment(BindingObject, W, OuterEnv)
NewObjectEnvironment(BindingObject, W, OuterEnv) ==
    [BindingObject |-> BindingObject, IsWithEnvironment |-> W, OuterEnv |-> OuterEnv]

\* NewGlobalEnvironment(GlobalObject, thisValue); id tells the records apart
NewGlobalEnvironment(GlobalObject, thisValue, id) ==
    [t |-> "GlobalEnvironmentRecord", id |-> id,
     ObjectRecord |-> NewObjectEnvironment(GlobalObject, FALSE, NullV),
     GlobalThisValue |-> thisValue,
     DeclarativeRecord |-> [bindings |-> {}, OuterEnv |-> NullV],
     VarNames |-> <<>>,
     OuterEnv |-> NullV]

\* an invocation by the host: what it returned and what it tried to define;
\* args holds the arguments other than the realm
Call(op, outcome, defines) ==
    [op |-> op, outcome |-> outcome, defines |-> defines, args |-> <<>>]

\* SetRealmGlobalObject without its line 205 (GlobalEnv keeps its old value)
SetRealmGlobalObject_KeepsGlobalEnv ==
    /\ rpc = "ready"
    /\ Len(calls) < MaxCalls
    /\ \E globalObj \in {Undefined, HostGlobal}, thisValue \in {Undefined, HostThis} :
         LET intrinsics == realmRec.Intrinsics
             create     == globalObj = Undefined
             g          == IF create THEN Obj(Len(heap) + 1) ELSE globalObj
         IN /\ heap' = IF create
                       THEN Append(heap, OrdinaryObjectCreate(intrinsics.ObjectPrototype))
                       ELSE heap
            /\ realmRec' = [realmRec EXCEPT !.GlobalObject = g]
            /\ envCount' = envCount + 1
    /\ calls' = Append(calls, Call("SetRealmGlobalObject", "returned", <<>>))
    /\ UNCHANGED <<hostVars, assignVars, rpc, ran>>

\* SetRealmGlobalObject without its lines 200-202 (thisValue stays undefined)
SetRealmGlobalObject_ThisStaysUndefined ==
    /\ rpc = "ready"
    /\ Len(calls) < MaxCalls
    /\ \E globalObj \in {Undefined, HostGlobal}, thisValue \in {Undefined, HostThis} :
         LET intrinsics == realmRec.Intrinsics
             create     == globalObj = Undefined
             g          == IF create THEN Obj(Len(heap) + 1) ELSE globalObj
             newGlobalEnv == NewGlobalEnvironment(g, thisValue, envCount + 1)
         IN /\ heap' = IF create
                       THEN Append(heap, OrdinaryObjectCreate(intrinsics.ObjectPrototype))
                       ELSE heap
            /\ realmRec' = [realmRec EXCEPT !.GlobalObject = g, !.GlobalEnv = newGlobalEnv]
            /\ envCount' = envCount + 1
            /\ calls' = Append(calls,
                    [Call("SetRealmGlobalObject", "returned", <<>>)
                        EXCEPT !.args = <<globalObj, thisValue>>])
    /\ UNCHANGED <<hostVars, assignVars, rpc, ran>>

\* SetRealmGlobalObject(realmRec, globalObj, thisValue), lines 195-207
SetRealmGlobalObject ==
    /\ rpc = "ready"
    /\ Len(calls) < MaxCalls
    /\ \E globalObj \in {Undefined, HostGlobal}, thisValue \in {Undefined, HostThis} :
         LET intrinsics == realmRec.Intrinsics
             create     == globalObj = Undefined
             g          == IF create THEN Obj(Len(heap) + 1) ELSE globalObj
             this       == IF thisValue = Undefined THEN g ELSE thisValue
             newGlobalEnv == NewGlobalEnvironment(g, this, envCount + 1)
         IN /\ heap' = IF create
                       THEN Append(heap, OrdinaryObjectCreate(intrinsics.ObjectPrototype))
                       ELSE heap
            /\ realmRec' = [realmRec EXCEPT !.GlobalObject = g, !.GlobalEnv = newGlobalEnv]
            /\ envCount' = envCount + 1
            /\ calls' = Append(calls,
                    [Call("SetRealmGlobalObject", "returned", <<>>)
                        EXCEPT !.args = <<globalObj, thisValue>>])
    /\ UNCHANGED <<hostVars, assignVars, rpc, ran>>

\* lines 278-282: the value properties of the global object
ValueProperties ==
    << [name |-> "Infinity",  desc |-> Descriptor(InfinityV, FALSE, FALSE, FALSE)],
       [name |-> "NaN",       desc |-> Descriptor(NaNV, FALSE, FALSE, FALSE)],
       [name |-> "undefined", desc |-> Descriptor(Undefined, FALSE, FALSE, FALSE)] >>

\* lines 298-363: the j-th listed name with the realm's intrinsic of that name
FunctionProperty(rec, j) ==
    [name |-> GlobalFunctionNames[j],
     desc |-> Descriptor(Intrinsic(rec, "%" \o GlobalFunctionNames[j] \o "%"),
                         TRUE, FALSE, TRUE)]

\* the call of SetDefaultGlobalBindings that is running, and what it has
\* tried to define so far
Running == calls[Len(calls)]
Attempt(entry, c) == [name |-> entry.name, abrupt |-> IsAbrupt(c)]
Logged(entry, c, outcome) ==
    [calls EXCEPT ![Len(calls)] =
        Call(@.op, outcome, Append(@.defines, Attempt(entry, c)))]

\* SetDefaultGlobalBindings(realmRec), lines 274-275: const global = ...
\* A GlobalObject that is no object makes the first DefinePropertyOrThrow an
\* internal-consistency violation, fatal before anything is defined.
SetDefaultGlobalBindings_Begin ==
    /\ rpc = "ready"
    /\ Len(calls) < MaxCalls
    /\ LET global == realmRec.GlobalObject IN
         IF global.t # "Object"
         THEN /\ calls' = Append(calls, Call("SetDefaultGlobalBindings", "fatal", <<>>))
              /\ rpc' = "ready"
         ELSE /\ calls' = Append(calls, Call("SetDefaultGlobalBindings", "running", <<>>))
              /\ rpc' = "valueProperties"
    /\ UNCHANGED <<hostVars, assignVars, realmRec, heap, envCount, ran>>

\* lines 278-289: one call of the forEach callback.  Its Q returns from the
\* callback; forEach drops what the callback returns and goes on.
SetDefaultGlobalBindings_ValueProperty ==
    /\ rpc = "valueProperties"
    /\ LET global == realmRec.GlobalObject
           j      == Len(Running.defines) + 1
           entry  == ValueProperties[j]
           d      == DefinePropertyOrThrow(heap[global.v], entry.name, entry.desc)
       IN /\ heap' = [heap EXCEPT ![global.v] = d.O]
          /\ calls' = Logged(entry, d.c, "running")
          /\ rpc' = IF j = Len(ValueProperties) THEN "globalThis" ELSE "valueProperties"
    /\ UNCHANGED <<hostVars, assignVars, realmRec, envCount, ran>>

\* lines 291-296: Q(DefinePropertyOrThrow(global, 'globalThis', ...)) in the
\* body of SetDefaultGlobalBindings itself
SetDefaultGlobalBindings_GlobalThis ==
    /\ rpc = "globalThis"
    /\ LET global == realmRec.GlobalObject
           entry  == [name |-> "globalThis",
                      desc |-> Descriptor(realmRec.GlobalEnv.GlobalThisValue,
                                          TRUE, FALSE, TRUE)]
           d      == DefinePropertyOrThrow(heap[global.v], entry.name, entry.desc)
       IN /\ heap' = [heap EXCEPT ![global.v] = d.O]
          /\ IF IsAbrupt(d.c)
             THEN calls' = Logged(entry, d.c, "abrupt") /\ rpc' = "ready"
             ELSE calls' = Logged(entry, d.c, "running") /\ rpc' = "functionProperties"
    /\ UNCHANGED <<hostVars, assignVars, realmRec, envCount, ran>>

\* lines 298-366: one call of the second forEach callback; after the last
\* one, return global
SetDefaultGlobalBindings_FunctionProperty ==
    /\ rpc = "functionProperties"
    /\ LET global == realmRec.GlobalObject
           j      == Len(Running.defines) - Len(ValueProperties)
           entry  == FunctionProperty(realmRec, j)
           d      == DefinePropertyOrThrow(heap[global.v], entry.name, entry.desc)
           last   == j = Len(GlobalFunctionNames)
       IN /\ heap' = [heap EXCEPT ![global.v] = d.O]
          /\ calls' = Logged(entry, d.c, IF last THEN "returned" ELSE "running")
          /\ rpc' = IF last THEN "ready" ELSE "functionProperties"
    /\ UNCHANGED <<hostVars, assignVars, realmRec, envCount, ran>>

\* SpecRealm: CreateRealm, then up to MaxCalls operations on the realm
InitRealmSpec == InitRealm /\ EvalIdle /\ HostIdle
NextRealm ==
    \/ CreateIntrinsics_Begin
    \/ CreateIntrinsics_Bootstrap
    \/ CreateIntrinsics_Finish
    \/ CreateRealm_Finish
    \/ SetRealmGlobalObject
    \/ SetDefaultGlobalBindings_Begin
    \/ SetDefaultGlobalBindings_ValueProperty
    \/ SetDefaultGlobalBindings_GlobalThis
    \/ SetDefaultGlobalBindings_FunctionProperty
SpecRealm == InitRealmSpec /\ [][NextRealm]_vars

(***************************************************************************)
(* Claims about realm construction.                                        *)
(***************************************************************************)
SetDefaultGlobalBindingsCalls ==
    {k \in 1..Len(calls) : calls[k].op = "SetDefaultGlobalBindings"}
SetRealmGlobalObjectCalls ==
    {k \in 1..Len(calls) : calls[k].op = "SetRealmGlobalObject"}
Failed(call) == {j \in 1..Len(call.defines) : call.defines[j].abrupt}

\* C6: when DefinePropertyOrThrow fails for a default global binding, the
\* call of SetDefaultGlobalBindings returns that abrupt completion and the
\* failed definition is the last one it attempted.
C6_AbruptDefineIsReturned ==
    rpc = "ready" =>
        \A k \in SetDefaultGlobalBindingsCalls :
            \A j \in Failed(calls[k]) :
                /\ calls[k].outcome = "abrupt"
                /\ j = Len(calls[k].defines)

\* the families of bootstrap routines in the order the claim lists them
Family(routine) ==
    CASE routine \in {"FunctionPrototype", "ObjectPrototype", "ThrowTypeError"} -> 1
      [] routine \in {"Eval", "IsFinite", "IsNaN", "ParseFloat", "ParseInt",
                      "URIHandling"} -> 2
      [] routine = "Object" -> 3
      [] routine \in {"ErrorPrototype", "Error", "NativeError",
                      "AggregateErrorPrototype", "AggregateError"} -> 4
      [] routine = "Function" -> 5
      [] routine \in {"IteratorPrototype", "AsyncIteratorPrototype",
                      "ArrayIteratorPrototype", "MapIteratorPrototype",
                      "SetIteratorPrototype", "StringIteratorPrototype",
                      "RegExpStringIteratorPrototype", "ForInIteratorPrototype"} -> 6
      [] routine \in {"StringPrototype", "String", "ArrayPrototype", "Array",
                      "BooleanPrototype", "Boolean", "NumberPrototype", "Number",
                      "BigIntPrototype", "BigInt", "SymbolPrototype", "Symbol"} -> 7
      [] routine \in {"PromisePrototype", "Promise"} -> 8
      [] routine \in {"Proxy", "Reflect"} -> 9
      [] routine = "Math" -> 10
      [] routine \in {"DatePrototype", "Date", "RegExpPrototype", "RegExp"} -> 11
      [] routine \in {"SetPrototype", "Set", "MapPrototype", "Map",
                      "WeakMapPrototype", "WeakMap", "WeakSetPrototype", "WeakSet",
                      "WeakRefPrototype", "WeakRef",
                      "FinalizationRegistryPrototype", "FinalizationRegistry"} -> 12
      [] routine \in {"GeneratorFunctionPrototypePrototype", "GeneratorFunctionPrototype",
                      "GeneratorFunction", "AsyncFunctionPrototype", "AsyncFunction",
                      "AsyncGeneratorFunctionPrototypePrototype",
                      "AsyncGeneratorFunctionPrototype", "AsyncGeneratorFunction",
                      "AsyncFromSyncIteratorPrototype"} -> 13
      [] routine \in {"ArrayBufferPrototype", "ArrayBuffer", "TypedArrayPrototype",
                      "TypedArray", "TypedArrayPrototypes", "TypedArrayConstructors"} -> 14
      [] routine \in {"DataViewPrototype", "DataView", "JSON"} -> 15
      [] OTHER -> 16
WeakCollections ==
    {"WeakMapPrototype", "WeakMap", "WeakSetPrototype", "WeakSet",
     "WeakRefPrototype", "WeakRef",
     "FinalizationRegistryPrototype", "FinalizationRegistry"}
\* the same families with the weak collections and FinalizationRegistry as a
\* family of their own behind DataView/JSON
FamilyWeakLast(routine) ==
    IF routine \in WeakCollections THEN 16 ELSE Family(routine)
\* the bootstrap routines that have run (AddRestrictedFunctionProperties is
\* no bootstrap routine)
Bootstrapped == {j \in 1..Len(ran) : ran[j] # "AddRestrictedFunctionProperties"}

\* C7 as claimed: no routine of a later family runs before a routine of an
\* earlier family, the weak collections counted with Set and Map (the family
\* never decreases from one routine to the next).
C7_FamilyOrderAsClaimed ==
    \A j \in Bootstrapped : j > 1 => Family(ran[j - 1]) <= Family(ran[j])

\* C7 as amended: the same family order, except that WeakMap, WeakSet,
\* WeakRef and FinalizationRegistry run after DataView/JSON.
C7_FamilyOrder ==
    \A j \in Bootstrapped : j > 1 => FamilyWeakLast(ran[j - 1]) <= FamilyWeakLast(ran[j])
C7_Witness ==
    /\ rpc = "AddRestrictedFunctionProperties"
    /\ \E i, j \in Bootstrapped : i < j /\ ran[i] = "JSON" /\ ran[j] = "WeakMapPrototype"

CreateIntrinsicsReturned ==
    rpc \notin {"idle", "CreateIntrinsics", "bootstrap", "AddRestrictedFunctionProperties"}
Routines == Range(BootstrapOrder)
\* the built-ins X with a prototype bootstrap and a constructor bootstrap
BuiltIns == {b \in PrototypeBases : b \in Routines /\ (b \o "Prototype") \in Routines}
RanBefore(a, b) ==
    \A j \in 1..Len(ran) : ran[j] = b => \E i \in 1..(j - 1) : ran[i] = a

\* C8: '%Object.prototype%' is in the table before any bootstrap routine
\* runs, the Function-prototype bootstrap is the first routine, every
\* prototype bootstrap runs before its constructor bootstrap, every routine
\* runs exactly once and AddRestrictedFunctionProperties is the last step.
C8_DependencyOrder ==
    /\ rpc = "bootstrap" => "%Object.prototype%" \in realmRec.Intrinsics.names
    /\ ran # <<>> => ran[1] = "FunctionPrototype"
    /\ \A b \in BuiltIns : RanBefore(b \o "Prototype", b)
    /\ RanBefore("TypedArrayPrototypes", "TypedArrayConstructors")
    /\ \A i, j \in 1..Len(ran) : ran[i] = ran[j] => i = j
    /\ CreateIntrinsicsReturned => \A r \in Routines : \E j \in 1..Len(ran) : ran[j] = r
    /\ \A j \in 1..Len(ran) :
          ran[j] = "AddRestrictedFunctionProperties" =>
              /\ j = Len(ran)
              /\ \A r \in Routines : \E i \in 1..(j - 1) : ran[i] = r
    /\ CreateIntrinsicsReturned => ran[Len(ran)] = "AddRestrictedFunctionProperties"
C8_Witness ==
    /\ rpc = "CreateRealm"
    /\ ran[Len(ran)] = "AddRestrictedFunctionProperties"
    /\ Len(ran) = Cardinality(Routines) + 1

\* the stages of a realm, read off the realm record
IntrinsicsBuilt == CreateIntrinsicsReturned /\ realmRec.Intrinsics.t = "Record"
GlobalObjectSet ==
    /\ IntrinsicsBuilt
    /\ realmRec.GlobalObject.t = "Object"
    /\ realmRec.GlobalEnv.t = "GlobalEnvironmentRecord"
DefaultBindingsInstalled ==
    /\ GlobalObjectSet
    /\ \A n \in PropNames : heap[realmRec.GlobalObject.v].props[n].has
\* Empty 1, IntrinsicsBuilt 2, GlobalObjectSet 3, DefaultBindingsInstalled
\* and Ready 4: no operation leads from DefaultBindingsInstalled to Ready
Stage ==
    IF DefaultBindingsInstalled THEN 4
    ELSE IF GlobalObjectSet THEN 3
    ELSE IF IntrinsicsBuilt THEN 2
    ELSE 1
StageNext ==
    IF DefaultBindingsInstalled' THEN 4
    ELSE IF GlobalObjectSet' THEN 3
    ELSE IF IntrinsicsBuilt' THEN 2
    ELSE 1
IsSetRealmGlobalObjectStep ==
    /\ Len(calls') = Len(calls) + 1
    /\ calls'[Len(calls')].op = "SetRealmGlobalObject"

\* C9 as claimed: a realm passes through the stages in exactly that order,
\* every step keeps the stage or leads to the next one.
C9_StagesInOrderAsClaimed ==
    [][StageNext = Stage \/ StageNext = Stage + 1]_vars

C9_Guards ==
    \* after CreateRealm and before SetRealmGlobalObject
    /\ (rpc = "ready" /\ SetRealmGlobalObjectCalls = {}) =>
          /\ realmRec.GlobalObject = Undefined
          /\ realmRec.GlobalEnv = NoEnv("Undefined")
          /\ realmRec.TemplateMap = [t |-> "List", list |-> <<>>]
    \* SetRealmGlobalObject only on a built Intrinsics table
    /\ realmRec.GlobalObject.t = "Object" => IntrinsicsBuilt
    /\ calls # <<>> => IntrinsicsBuilt
    \* SetDefaultGlobalBindings before SetRealmGlobalObject defines nothing
    /\ \A k \in SetDefaultGlobalBindingsCalls :
          (\A i \in SetRealmGlobalObjectCalls : i > k) =>
              calls[k].outcome = "fatal" /\ calls[k].defines = <<>>
C9_Step ==
    \* no step skips a stage
    /\ StageNext <= Stage + 1
    \* only SetRealmGlobalObject leads back, and no further than to GlobalObjectSet
    /\ StageNext < Stage => IsSetRealmGlobalObjectStep /\ StageNext = 3
    \* without a global object only SetRealmGlobalObject changes the realm
    /\ (rpc = "ready" /\ ~GlobalObjectSet /\ ~IsSetRealmGlobalObjectStep) =>
          realmRec' = realmRec /\ heap' = heap

\* C9 as amended: no step skips a stage, the guards of the claim hold, and a
\* realm goes back from DefaultBindingsInstalled to GlobalObjectSet when
\* SetRealmGlobalObject is invoked on it again with a new global object.
C9_StagesInOrder ==
    []C9_Guards /\ [][C9_Step]_vars
C9_Witness ==
    /\ Len(calls) = MaxCalls
    /\ calls[1] = Call("SetDefaultGlobalBindings", "fatal", <<>>)
    /\ calls[2].op = "SetRealmGlobalObject"
    /\ calls[3].op = "SetDefaultGlobalBindings" /\ calls[3].outcome = "returned"
    /\ Stage = 4

GlobalFieldsChange ==
    \/ realmRec'.GlobalObject # realmRec.GlobalObject
    \/ realmRec'.GlobalEnv # realmRec.GlobalEnv

\* C10 as claimed: once GlobalObject and GlobalEnv are set, they are never
\* assigned again.
C10_SetOnceAsClaimed ==
    [][realmRec.GlobalObject.t = "Object" => ~GlobalFieldsChange]_vars

C10_Step ==
    /\ GlobalFieldsChange =>
          \/ /\ rpc = "CreateRealm"
             /\ realmRec'.GlobalObject = Undefined
             /\ realmRec'.GlobalEnv = NoEnv("Undefined")
          \/ /\ IsSetRealmGlobalObjectStep
             /\ realmRec'.GlobalObject.t = "Object"
             /\ realmRec'.GlobalEnv.t = "GlobalEnvironmentRecord"
             /\ realmRec'.GlobalEnv.ObjectRecord.BindingObject = realmRec'.GlobalObject
             /\ realmRec'.GlobalEnv # realmRec.GlobalEnv
    /\ IsSetRealmGlobalObjectStep => GlobalFieldsChange
    \* CreateIntrinsics does not run again
    /\ CreateIntrinsicsReturned => (CreateIntrinsicsReturned' /\ ran' = ran)

\* C10 as amended: GlobalObject and GlobalEnv go from undefined to a defined
\* value in one SetRealmGlobalObject step, both at once; afterwards only a
\* further SetRealmGlobalObject call assigns them, and it assigns both;
\* CreateIntrinsics runs once on a realm.
C10_SetBySetRealmGlobalObjectOnly ==
    [](realmRec.GlobalObject.t = "Object" <=>
           realmRec.GlobalEnv.t = "GlobalEnvironmentRecord")
        /\ [][C10_Step]_vars
C10_Witness ==
    /\ Cardinality(SetRealmGlobalObjectCalls) = 2
    /\ calls[Len(calls)].op = "SetDefaultGlobalBindings"
    /\ realmRec.GlobalEnv.id = 2

\* the global object right after a call of SetDefaultGlobalBindings that
\* completed normally
BindingsJustInstalled ==
    /\ rpc = "ready"
    /\ calls # <<>>
    /\ calls[Len(calls)].op = "SetDefaultGlobalBindings"
    /\ calls[Len(calls)].outcome = "returned"

\* C11: after SetDefaultGlobalBindings completes normally the global object
\* has Infinity, NaN and undefined as non-writable, non-enumerable,
\* non-configurable data properties, globalThis as a writable, non-enumerable,
\* configurable property holding the global environment's GlobalThisValue,
\* and every listed name as a writable, non-enumerable, configurable property
\* holding the realm's intrinsic of that name, which is not undefined.
C11_DefaultBindingAttributes ==
    BindingsJustInstalled =>
        LET props == heap[realmRec.GlobalObject.v].props IN
        /\ props["Infinity"] = Descriptor(InfinityV, FALSE, FALSE, FALSE)
        /\ props["NaN"] = Descriptor(NaNV, FALSE, FALSE, FALSE)
        /\ props["undefined"] = Descriptor(Undefined, FALSE, FALSE, FALSE)
        /\ props["globalThis"] =
              Descriptor(realmRec.GlobalEnv.GlobalThisValue, TRUE, FALSE, TRUE)
        /\ \A n \in Range(GlobalFunctionNames) :
              /\ ("%" \o n \o "%") \in realmRec.Intrinsics.names
              /\ props[n] = Descriptor([t |-> "%" \o n \o "%", v |-> 0], TRUE, FALSE, TRUE)

(***************************************************************************)
(* Further properties of Evaluate_AssignmentExpression.                    *)
(***************************************************************************)
IsSimple == ~IsCompound /\ ~IsPattern
AnonymousSource == node.right.k \in {"function(){}", "class{static name(){}}"}
SourceHasOwnName == node.right.k \in {"class{static name(){}}", "function named(){}"}
IdentifierTarget == node.left.k \in {"x", "c", "y"}
\* the own "name" property of the source's value when the source was evaluated
NameAsEvaluated ==
    CASE node.right.k = "class{static name(){}}" -> [own |-> TRUE, name |-> "<method>"]
      [] node.right.k = "function named(){}"     -> [own |-> TRUE, name |-> "named"]
      [] OTHER                                   -> [own |-> FALSE, name |-> ""]

\* C12: in a plain '=' whose source is an anonymous function or class,
\* SetFunctionName(value, name of the target) is performed if and only if the
\* target is an identifier reference and the value has no own "name"; it
\* comes before PutValue; otherwise the name is left as it was.
C12_FunctionNameInference ==
    IsSimple =>
        /\ Happened("SetFunctionName") => AnonymousSource
        /\ (AnonymousSource /\ Happened("PutValue")) =>
              (Happened("SetFunctionName") <=> (IdentifierTarget /\ ~SourceHasOwnName))
        /\ Happened("SetFunctionName") =>
              /\ trace[At("SetFunctionName")].val = trace[At("GetValueR")].c.Value.val
              /\ trace[At("SetFunctionName")].ref = trace[At("EvalLeft")].c.Value
              /\ store.fn = [own |-> TRUE, name |-> node.left.k]
              /\ Happened("PutValue") => Before("SetFunctionName", "PutValue")
        /\ (Happened("GetValueR") /\ ~(AnonymousSource /\ IdentifierTarget /\ ~SourceHasOwnName)
                /\ pc \in {"s40", "done"}) =>
              store.fn = NameAsEvaluated
C12_Witness ==
    /\ ReturnedNormally /\ IsSimple /\ node.left.k = "x"
    /\ node.right.k = "function(){}"
    /\ Before("SetFunctionName", "PutValue")
    /\ store.fn.name = "x" /\ store.x = ObjFn

\* C13: a plain '=' to a simple target that returns normally performed
\* PutValue exactly once, with the target's Reference and the source's value,
\* never read the target with GetValue, and yields the source's value.
C13_PlainAssignment ==
    IsSimple =>
        /\ ~Happened("GetValueL")
        /\ ReturnedNormally =>
              /\ Count("PutValue") = 1
              /\ trace[At("PutValue")].ref = trace[At("EvalLeft")].c.Value
              /\ trace[At("PutValue")].val = trace[At("GetValueR")].c.Value.val
              /\ result = NormalCompletion(Val(trace[At("GetValueR")].c.Value.val))
C13_Witness ==
    /\ ReturnedNormally /\ IsSimple /\ node.left.k = "x"
    /\ node.right = [k |-> "num", n |-> 2]
    /\ result = NormalCompletion(Val(Num(2))) /\ store.x = Num(2)
    /\ Count("PutValue") = 1

\* the source expression and the read of its value complete normally
SourceCompletes == node.right.k \notin {"u", "throw()"}

\* C14: an assignment to the immutable binding c, plain or compound, strict
\* or not, never completes normally; with a source that completes normally
\* it yields Throw(TypeError), which comes from the write unless the operator
\* already failed on a mix of Number and BigInt; c keeps its value.
C14_ConstAssignmentThrows ==
    /\ store.c = Num(1)
    /\ (node.left.k = "c" /\ pc = "done") =>
          /\ result.Type = "throw"
          /\ SourceCompletes => result = Throw(TypeErrorV)
          /\ (SourceCompletes /\ (IsSimple \/ node.right.k # "1n")) =>
                /\ trace[Len(trace)].step = "PutValue"
                /\ trace[Len(trace)].ref = Reference("env", 0, "c", strict)
\* 'const c = 1; c = 2' and 'c += 2'
C14_Witness ==
    /\ pc = "done" /\ node.left.k = "c" /\ node.right = [k |-> "num", n |-> 2]
    /\ Happened("PutValue") /\ result = Throw(TypeErrorV)
    /\ store.c = Num(1)

\* reading the name y in the current store
ReadY ==
    GetValue(Evaluate_Expression([k |-> "y", n |-> 0], store, strict).c.Value, store)

\* C15: a plain '=' to the unresolvable name y, with a source that completes
\* normally, creates in non-strict mode the writable, enumerable,
\* configurable global property y holding the assigned value, which a read of
\* y then yields; in strict mode it yields Throw(ReferenceError) and creates
\* no property.
C15_UnresolvableAssignment ==
    (IsSimple /\ node.left.k = "y") =>
        /\ (pc # "done" \/ ~SourceCompletes) => ~store.y.has
        /\ (pc = "done" /\ SourceCompletes /\ strict) =>
              /\ result = Throw(ReferenceErrorV)
              /\ ~store.y.has
              /\ ReadY = Throw(ReferenceErrorV)
        /\ (pc = "done" /\ SourceCompletes /\ ~strict) =>
              /\ result = NormalCompletion(Val(rval))
              /\ store.y = [has |-> TRUE, val |-> rval, writable |-> TRUE,
                            enumerable |-> TRUE, configurable |-> TRUE]
              /\ ReadY = NormalCompletion(Val(rval))
\* 'y = 1' in non-strict mode, then y reads 1
C15_Witness ==
    /\ pc = "done" /\ IsSimple /\ node.left.k = "y" /\ ~strict
    /\ node.right = [k |-> "num", n |-> 1]
    /\ store.y.has /\ ReadY = NormalCompletion(Val(Num(1)))

\* C20: a compound assignment to the unresolvable name y yields
\* Throw(ReferenceError) from the read of the target, strict or not: the
\* source is not evaluated, PutValue is not performed and no property y is
\* created.
C20_CompoundUnresolvable ==
    (IsCompound /\ node.left.k = "y") =>
        /\ ~store.y.has
        /\ ~Happened("EvalRight") /\ ~Happened("PutValue")
        /\ pc = "done" =>
              /\ result = Throw(ReferenceErrorV)
              /\ trace[Len(trace)].step = "GetValueL"
              /\ trace[Len(trace)].ref.base = "unresolvable"
C20_Witness ==
    /\ pc = "done" /\ IsCompound /\ node.left.k = "y" /\ ~strict
    /\ node.right.k = "(x=9,2)" /\ store.x = Num(x0)
    /\ result = Throw(ReferenceErrorV) /\ ~store.y.has

\* the realm right after a call of SetRealmGlobalObject
GlobalObjectJustSet ==
    /\ rpc = "ready"
    /\ calls # <<>>
    /\ calls[Len(calls)].op = "SetRealmGlobalObject"
\* the calls of SetRealmGlobalObject that were given no global object
CreatingCalls == {k \in SetRealmGlobalObjectCalls : calls[k].args[1] = Undefined}

\* C19: after SetRealmGlobalObject(realm, globalObj, thisValue) the realm's
\* GlobalObject is globalObj or, when that is undefined, a new extensible
\* ordinary object with prototype %Object.prototype%; GlobalEnv is a new
\* global environment record whose object record binds that object with
\* IsWithEnvironment false, whose GlobalThisValue is thisValue or, when that
\* is undefined, the global object, whose declarative record and VarNames
\* are empty and whose OuterEnv is null.
C19_SetRealmGlobalObject ==
    GlobalObjectJustSet =>
        LET globalObj == calls[Len(calls)].args[1]
            thisValue == calls[Len(calls)].args[2]
            g   == realmRec.GlobalObject
            env == realmRec.GlobalEnv
        IN /\ globalObj # Undefined => g = globalObj
           /\ globalObj = Undefined =>
                 /\ g = Obj(Len(heap))
                 /\ Len(heap) = Cardinality({HostGlobal, HostThis,
                                             realmRec.Intrinsics.ObjectPrototype})
                                    + Cardinality(CreatingCalls)
                 /\ heap[g.v].Prototype = realmRec.Intrinsics.ObjectPrototype
                 /\ heap[g.v].Extensible
                 /\ \A n \in PropNames : ~heap[g.v].props[n].has
           /\ env.t = "GlobalEnvironmentRecord"
           /\ env.id = Cardinality(SetRealmGlobalObjectCalls)
           /\ env.ObjectRecord =
                 [BindingObject |-> g, IsWithEnvironment |-> FALSE, OuterEnv |-> NullV]
           /\ env.GlobalThisValue = (IF thisValue = Undefined THEN g ELSE thisValue)
           /\ env.DeclarativeRecord.bindings = {}
           /\ env.VarNames = <<>>
           /\ env.OuterEnv = NullV
C19_Witness ==
    /\ GlobalObjectJustSet
    /\ Cardinality(SetRealmGlobalObjectCalls) = 2
    /\ calls[Len(calls)].args = <<Undefined, Undefined>>
    /\ realmRec.GlobalEnv.GlobalThisValue = realmRec.GlobalObject
    /\ realmRec.GlobalObject \notin {HostGlobal, HostThis}

(***************************************************************************)
(* The worker's message listener (src/unnamed/part_000), one action per    *)
(* statement or call.  While evaluateScript or module.Evaluate runs, the   *)
(* code being evaluated rejects and handles promises, which makes the      *)
(* engine call promiseRejectionTracker, and creates global bindings.       *)
(***************************************************************************)
Features == {{"top-level-await"}}
Messages ==
    [type : {"evaluate"}, mode : {"script", "module"}, features : Features]
        \cup {[type |-> "other", mode |-> "script", features |-> {}]}
Operations == {"reject", "handle", "resolve"}

\* postMessage({ type, value: { method, values } }) / ({ type, value })
Message(type, method, value) == [type |-> type, method |-> method, value |-> value]
\* inspect(value): the rendering of a value
Inspect(value) == <<"inspect", value>>
\* promise.PromiseResult of the n-th promise of a realm
PromiseResult(promise) == <<"reason", promise>>

\* Set.prototype.add / delete on a Set kept in insertion order
SetAdd(set, e) == IF \E j \in 1..Len(set) : set[j] = e THEN set ELSE Append(set, e)
SetDelete(set, e) == SelectSeq(set, LAMBDA x : x # e)

Step(name, r) == [step |-> name, result |-> r]
Unhandled == SelectSeq(posted, LAMBDA m : m.type = "unhandledRejection")

\* line 18, and the listener registered by line 20
InitHost ==
    /\ hpc = "idle"
    /\ data = NoMessage
    /\ agents = <<>>
    /\ surroundingAgent = 0
    /\ globals = <<>>
    /\ hrealm = 0
    /\ promises = <<>>
    /\ tracked = <<>>
    /\ hresult = NoResult
    /\ hsteps = <<>>
    /\ posted = <<Message("initialize", "", "FEATURES")>>
    /\ sessions = 0

\* lines 20-24: a message arrives; only 'evaluate' is acted on
Listener_Receive ==
    /\ hpc = "idle"
    /\ \E msg \in Messages :
         /\ msg.type = "evaluate" => sessions < MaxSessions
         /\ data' = msg
         /\ IF msg.type = "evaluate"
            THEN /\ hpc' = "agent"
                 /\ sessions' = sessions + 1
                 /\ tracked' = <<>> /\ hsteps' = <<>> /\ posted' = <<>>
                 /\ hresult' = NoResult
            ELSE UNCHANGED <<hpc, sessions, tracked, hsteps, posted, hresult>>
    /\ UNCHANGED <<assignVars, realmVars, agents, surroundingAgent, globals, hrealm,
                   promises>>

\* lines 26-32: new Agent({ features }); setSurroundingAgent(agent)
Listener_CreateAgent ==
    /\ hpc = "agent"
    /\ agents' = Append(agents, [features |-> data.features])
    /\ surroundingAgent' = Len(agents) + 1
    /\ hpc' = "realm"
    /\ UNCHANGED <<assignVars, realmVars, data, globals, hrealm, promises, tracked,
                   hresult, hsteps, posted, sessions>>

\* lines 34-48 with 'promises' declared outside the listener: the Set of the
\* previous message is kept
Listener_CreateRealm_SharedPromises ==
    /\ hpc = "realm"
    /\ globals' = Append(globals, {})
    /\ hrealm' = Len(globals) + 1
    /\ hpc' = "setup"
    /\ UNCHANGED <<assignVars, realmVars, data, agents, surroundingAgent, promises,
                   tracked, hresult, hsteps, posted, sessions>>

\* lines 34-48: const promises = new Set(); const realm = new ManagedRealm(...)
Listener_CreateRealm ==
    /\ hpc = "realm"
    /\ promises' = <<>>
    /\ globals' = Append(globals, {})
    /\ hrealm' = Len(globals) + 1
    /\ hpc' = "setup"
    /\ UNCHANGED <<assignVars, realmVars, data, agents, surroundingAgent, tracked,
                   hresult, hsteps, posted, sessions>>

\* lines 50-98: print and console on the realm's global object, the 'clear'
\* message, and the test of the mode
Listener_Setup ==
    /\ hpc = "setup"
    /\ globals' = [globals EXCEPT ![hrealm] = @ \cup {"print", "console"}]
    /\ posted' = Append(posted, Message("console", "clear", <<>>))
    /\ hpc' = IF data.mode = "script" THEN "evaluateScript" ELSE "createSourceTextModule"
    /\ UNCHANGED <<assignVars, realmVars, data, agents, surroundingAgent, hrealm,
                   promises, tracked, hresult, hsteps, sessions>>

\* the tracker with 'handle' treated like the default case
promiseRejectionTracker_IgnoresHandle ==
    /\ hpc \in {"evaluateScript", "Evaluate"}
    /\ Len(tracked) < MaxTrackerCalls
    /\ \E n \in 1..MaxPromises, operation \in Operations :
         LET promise == [realm |-> hrealm, n |-> n] IN
         /\ promises' = CASE operation = "reject" -> SetAdd(promises, promise)
                          [] OTHER                -> promises
         /\ tracked' = Append(tracked, [promise |-> promise, operation |-> operation])
    /\ UNCHANGED <<assignVars, realmVars, hpc, data, agents, surroundingAgent, globals,
                   hrealm, hresult, hsteps, posted, sessions>>

\* lines 36-47: promiseRejectionTracker(promise, operation), called by the
\* engine while code of the realm runs
promiseRejectionTracker ==
    /\ hpc \in {"evaluateScript", "Evaluate"}
    /\ Len(tracked) < MaxTrackerCalls
    /\ \E n \in 1..MaxPromises, operation \in Operations :
         LET promise == [realm |-> hrealm, n |-> n] IN
         /\ promises' = CASE operation = "reject" -> SetAdd(promises, promise)
                          [] operation = "handle" -> SetDelete(promises, promise)
                          [] OTHER                -> promises
         /\ tracked' = Append(tracked, [promise |-> promise, operation |-> operation])
    /\ UNCHANGED <<assignVars, realmVars, hpc, data, agents, surroundingAgent, globals,
                   hrealm, hresult, hsteps, posted, sessions>>

\* the code being evaluated creates the global binding y in its realm
Code_CreatesGlobal ==
    /\ hpc \in {"evaluateScript", "Evaluate"}
    /\ "y" \notin globals[hrealm]
    /\ globals' = [globals EXCEPT ![hrealm] = @ \cup {"y"}]
    /\ UNCHANGED <<assignVars, realmVars, hpc, data, agents, surroundingAgent, hrealm,
                   promises, tracked, hresult, hsteps, posted, sessions>>

\* line 99: result = realm.evaluateScript(code, ...)
Script_Evaluate ==
    /\ hpc = "evaluateScript"
    /\ \E r \in {NormalValue("value"), ThrowCompletion("error")} :
         /\ hresult' = r
         /\ hsteps' = Append(hsteps, Step("evaluateScript", r))
    /\ hpc' = "report"
    /\ UNCHANGED <<assignVars, realmVars, data, agents, surroundingAgent, globals,
                   hrealm, promises, tracked, posted, sessions>>

\* lines 101-102: result = realm.createSourceTextModule('code.mjs', code)
Module_Create ==
    /\ hpc = "createSourceTextModule"
    /\ \E r \in {SourceTextModule, ThrowCompletion("SyntaxError")} :
         /\ hresult' = r
         /\ hsteps' = Append(hsteps, Step("createSourceTextModule", r))
         /\ hpc' = IF ~InstanceofAbruptCompletion(r) THEN "Link" ELSE "report"
    /\ UNCHANGED <<assignVars, realmVars, data, agents, surroundingAgent, globals,
                   hrealm, promises, tracked, posted, sessions>>

\* lines 103-106: result = module.Link()
Module_Link ==
    /\ hpc = "Link"
    /\ \E r \in {NormalValue("undefined"), ThrowCompletion("LinkError")} :
         /\ hresult' = r
         /\ hsteps' = Append(hsteps, Step("Link", r))
         /\ hpc' = IF ~InstanceofAbruptCompletion(r) THEN "Evaluate" ELSE "report"
    /\ UNCHANGED <<assignVars, realmVars, data, agents, surroundingAgent, globals,
                   hrealm, promises, tracked, posted, sessions>>

\* what module.Evaluate() gives back
EvaluateResults ==
    {PromiseObject("fulfilled", "undefined"), PromiseObject("pending", "undefined"),
     PromiseObject("rejected", "reason"), ThrowCompletion("error")}

\* lines 107-110 without lines 108-110: a rejected promise is left as the result
Module_Evaluate_KeepsRejectedPromise ==
    /\ hpc = "Evaluate"
    /\ \E r \in EvaluateResults :
         /\ hsteps' = Append(hsteps, Step("Evaluate", r))
         /\ hresult' = r
    /\ hpc' = "report"
    /\ UNCHANGED <<assignVars, realmVars, data, agents, surroundingAgent, globals,
                   hrealm, promises, tracked, posted, sessions>>

\* lines 107-110: result = module.Evaluate(); a rejected promise becomes
\* Throw(result.PromiseResult)
Module_Evaluate ==
    /\ hpc = "Evaluate"
    /\ \E r \in EvaluateResults :
         /\ hsteps' = Append(hsteps, Step("Evaluate", r))
         /\ hresult' = IF r.PromiseState = "rejected" THEN ThrowCompletion(r.Value) ELSE r
    /\ hpc' = "report"
    /\ UNCHANGED <<assignVars, realmVars, data, agents, surroundingAgent, globals,
                   hrealm, promises, tracked, posted, sessions>>

\* lines 114-122: an abrupt result is posted as a console error
Listener_Report ==
    /\ hpc = "report"
    /\ posted' = IF InstanceofAbruptCompletion(hresult)
                 THEN Append(posted, Message("console", "error", <<Inspect(hresult)>>))
                 ELSE posted
    /\ hpc' = "unhandledRejections"
    /\ UNCHANGED <<assignVars, realmVars, data, agents, surroundingAgent, globals,
                   hrealm, promises, tracked, hresult, hsteps, sessions>>

\* lines 124-130: the next promise of the Set is posted
Listener_PostUnhandled ==
    /\ hpc = "unhandledRejections"
    /\ Len(Unhandled) < Len(promises)
    /\ LET promise == promises[Len(Unhandled) + 1] IN
         posted' = Append(posted, Message("unhandledRejection", "",
                                          Inspect(PromiseResult(promise))))
    /\ UNCHANGED <<assignVars, realmVars, hpc, data, agents, surroundingAgent, globals,
                   hrealm, promises, tracked, hresult, hsteps, sessions>>

\* lines 130-133: the loop is through, the listener returns
Listener_Return ==
    /\ hpc = "unhandledRejections"
    /\ Len(Unhandled) >= Len(promises)
    /\ hpc' = "idle"
    /\ UNCHANGED <<assignVars, realmVars, data, agents, surroundingAgent, globals,
                   hrealm, promises, tracked, hresult, hsteps, posted, sessions>>

\* SpecHost: the worker handling up to MaxSessions 'evaluate' messages
InitHostSpec == InitHost /\ EvalIdle /\ RealmIdle
NextHost ==
    \/ Listener_Receive
    \/ Listener_CreateAgent
    \/ Listener_CreateRealm
    \/ Listener_Setup
    \/ promiseRejectionTracker
    \/ Code_CreatesGlobal
    \/ Script_Evaluate
    \/ Module_Create
    \/ Module_Link
    \/ Module_Evaluate
    \/ Listener_Report
    \/ Listener_PostUnhandled
    \/ Listener_Return
SpecHost == InitHostSpec /\ [][NextHost]_vars

(***************************************************************************)
(* Claims about the worker.                                                *)
(***************************************************************************)
InSession == data.type = "evaluate" /\ hpc # "idle"
\* the listener has decided the final result
ResultDecided == data.type = "evaluate" /\ hpc \in {"report", "unhandledRejections", "idle"}
\* the listener is past the report of the result
ReportDone == data.type = "evaluate" /\ hpc \in {"unhandledRejections", "idle"}
\* the listener has returned from an 'evaluate' message
SessionEnded == data.type = "evaluate" /\ hpc = "idle"
ModuleSteps == <<"createSourceTextModule", "Link", "Evaluate">>
IsAbruptResult(r) == r.Type = "throw"
ErrorsPosted == SelectSeq(posted, LAMBDA m : m.type = "console" /\ m.method = "error")

\* C16: in module mode createSourceTextModule, Link and Evaluate run in that
\* order, each only after the earlier ones returned a non-abrupt result; the
\* final result is the first abrupt completion, or a Throw of the rejection
\* value when Evaluate returned a rejected promise; an error is posted
\* exactly when the final result is abrupt.
C16_ModuleMode ==
    (data.type = "evaluate" /\ data.mode = "module") =>
        /\ Len(hsteps) <= Len(ModuleSteps)
        /\ \A j \in 1..Len(hsteps) :
              /\ hsteps[j].step = ModuleSteps[j]
              /\ j < Len(hsteps) => ~IsAbruptResult(hsteps[j].result)
        /\ ResultDecided =>
              LET last == hsteps[Len(hsteps)].result IN
              /\ hsteps # <<>>
              /\ ~IsAbruptResult(last) => Len(hsteps) = Len(ModuleSteps)
              /\ IsAbruptResult(last) => hresult = last
              /\ (last.Type = "promise" /\ last.PromiseState = "rejected") =>
                    hresult = ThrowCompletion(last.Value)
              /\ (~IsAbruptResult(last)
                     /\ ~(last.Type = "promise" /\ last.PromiseState = "rejected")) =>
                    hresult = last
        /\ ~ResultDecided => ErrorsPosted = <<>>
        /\ ReportDone =>
              ErrorsPosted = (IF IsAbruptResult(hresult)
                              THEN <<Message("console", "error", <<Inspect(hresult)>>)>>
                              ELSE <<>>)
C16_Witness ==
    /\ SessionEnded /\ data.mode = "module"
    /\ Len(hsteps) = Len(ModuleSteps)
    /\ hsteps[Len(hsteps)].result = PromiseObject("rejected", "reason")
    /\ hresult = ThrowCompletion("reason")
    /\ Len(ErrorsPosted) = 1

\* the tracker calls with 'reject' or 'handle' made for a promise
RejectOrHandle(promise) ==
    {j \in 1..Len(tracked) : /\ tracked[j].promise = promise
                             /\ tracked[j].operation \in {"reject", "handle"}}
\* the promise's most recent one of them was 'reject'
LastWasReject(promise) ==
    \E j \in RejectOrHandle(promise) :
        /\ tracked[j].operation = "reject"
        /\ \A k \in RejectOrHandle(promise) : k <= j
TrackedPromises == {tracked[j].promise : j \in 1..Len(tracked)}
Reported == {Unhandled[j].value : j \in 1..Len(Unhandled)}

\* C17: the promises reported as unhandled when the session ends are exactly
\* those whose most recent 'reject' or 'handle' tracker call was 'reject',
\* each reported once; other operations change nothing.
C17_UnhandledRejections ==
    /\ (InSession /\ hpc \notin {"agent", "realm"}) =>
          /\ \A i, j \in 1..Len(promises) : promises[i] = promises[j] => i = j
          /\ {promises[j] : j \in 1..Len(promises)} =
                {p \in TrackedPromises : LastWasReject(p)}
    /\ SessionEnded =>
          /\ Reported = {Inspect(PromiseResult(p)) : p \in {q \in TrackedPromises : LastWasReject(q)}}
          /\ \A i, j \in 1..Len(Unhandled) : Unhandled[i] = Unhandled[j] => i = j
    /\ \A j \in 1..Len(Unhandled) : Unhandled[j].value = Inspect(PromiseResult(promises[j]))
C17_Witness ==
    /\ SessionEnded
    /\ Len(tracked) = 3
    /\ tracked[1].operation = "reject" /\ tracked[2].operation = "handle"
    /\ tracked[3].operation = "reject"
    /\ tracked[1].promise = tracked[2].promise /\ tracked[2].promise = tracked[3].promise
    /\ Len(Unhandled) = 1

\* C18: every 'evaluate' message gets a new Agent, made the surrounding agent,
\* a new realm and a new empty Set of promises before any code runs; the
\* realm starts without the bindings earlier evaluations created, and only
\* promises of this evaluation's realm are tracked and reported.
C18_FreshSession ==
    /\ (InSession /\ hpc # "agent") =>
          /\ Len(agents) = sessions
          /\ surroundingAgent = Len(agents)
          /\ agents[surroundingAgent].features = data.features
    /\ (InSession /\ hpc \notin {"agent", "realm"}) =>
          /\ Len(globals) = sessions
          /\ hrealm = Len(globals)
          /\ \A j \in 1..Len(promises) : promises[j].realm = hrealm
          /\ \A j \in 1..Len(tracked) : tracked[j].promise.realm = hrealm
    /\ hpc = "setup" => promises = <<>> /\ globals[hrealm] = {}
    /\ hpc \in {"createSourceTextModule", "Link"} =>
          promises = <<>> /\ globals[hrealm] = {"print", "console"}
    /\ (hpc \in {"evaluateScript", "Evaluate"} /\ tracked = <<>>) => promises = <<>>
    /\ data.type = "evaluate" =>
          \A j \in 1..Len(Unhandled) :
              \E n \in 1..MaxPromises :
                  Unhandled[j].value = Inspect(PromiseResult([realm |-> hrealm, n |-> n]))
C18_Witness ==
    /\ sessions = 2 /\ hpc = "Link"
    /\ Len(agents) = 2 /\ surroundingAgent = 2 /\ hrealm = 2
    /\ "y" \in globals[1] /\ "y" \notin globals[2]
    /\ promises = <<>>

=============================================================================
